---- MODULE Spec2Model ----
(***************************************************************************)
(* HireCoach-AI (src/app.py): the interview coach / practice interview     *)
(* session protocol.  A text is a sequence of tokens: the labels           *)
(* "Question:" and "Answer:", the blank " " and words.  A dict (a question *)
(* record, the Flask session, a JSON body) is a function whose domain is   *)
(* the set of keys present.                                                *)
(***************************************************************************)
EXTENDS Integers, Sequences, FiniteSets, TLC

\* src/app.py:137 and src/app.py:139
MAX_INITIAL_QUESTIONS == 5
MAX_PRACTICE_QUESTIONS == 5

\* Bounds of the model: rows of the practice_session table, question
\* records stored over all rows, stored records whose question is not the
\* text "q1".  One row holds at most MAX records, so the second bound
\* matters once there are two rows.
MaxSessions == 1
MaxRecords == 5
MaxOtherTexts == 1

\* Bound of the model: requests in flight at once, from their read of the
\* row to their write.
MaxPending == 2

\* Bound of the model: rows of the resume_optimization_result table.
MaxResults == 2

\* Bound of the model: rows of the user table.
MaxUsers == 4

\* Bound of the model: rows of the session table where a coach session and
\* a practice session are kept side by side.
MaxRows == 2

\* Bounds of the model: the tokens of a reply text built from an alphabet,
\* and the blanks around a part of a well-formed reply.
MaxLen == 4
MaxPad == 2

(***************************************************************************)
(* Dicts                                                                   *)
(***************************************************************************)
Has(d, k) == k \in DOMAIN d

Put(d, k, v) == [x \in (DOMAIN d) \cup {k} |-> IF x = k THEN v ELSE d[x]]

Pop(d, k) == [x \in (DOMAIN d) \ {k} |-> d[x]]

\* dict.update(other)
Update(d, other) ==
    [x \in (DOMAIN d) \cup (DOMAIN other) |-> IF x \in DOMAIN other THEN other[x] ELSE d[x]]

EmptyDict == [x \in {} |-> <<>>]

(***************************************************************************)
(* Texts                                                                   *)
(***************************************************************************)
IsSpace(tok) == tok = " "

RECURSIVE LStrip(_)
LStrip(s) == IF s # <<>> /\ IsSpace(Head(s)) THEN LStrip(Tail(s)) ELSE s

RECURSIVE RStrip(_)
RStrip(s) ==
    IF s # <<>> /\ IsSpace(s[Len(s)]) THEN RStrip(SubSeq(s, 1, Len(s) - 1)) ELSE s

\* A variant: str.lstrip() where the code calls str.strip()
StripLeftOnly(s) == LStrip(s)

\* str.strip()
Strip(s) == RStrip(LStrip(s))

\* The first position >= pos of text holding tok; Len(text) + 1 when none.
RECURSIVE Find(_, _, _)
Find(text, tok, pos) ==
    IF pos > Len(text) THEN Len(text) + 1
    ELSE IF text[pos] = tok THEN pos
    ELSE Find(text, tok, pos + 1)

\* re.findall(r"Question:\s*(.*?)\s*Answer:\s*(.*?)(?=(Question:|$))", text,
\* re.DOTALL) from position pos: the next match starts at the first
\* "Question:" that an "Answer:" follows, its first group runs to the first
\* "Answer:", its second to the next "Question:" or the end of the text,
\* where the scan goes on.
RECURSIVE FindAllQA(_, _)
FindAllQA(text, pos) ==
    LET i == Find(text, "Question:", pos)
        j == Find(text, "Answer:", i + 1)
        k == Find(text, "Question:", j + 1)
    IN  IF i > Len(text) \/ j > Len(text) THEN <<>>
        ELSE <<[q |-> LStrip(SubSeq(text, i + 1, j - 1)),
                a |-> LStrip(SubSeq(text, j + 1, k - 1))]>>
             \o FindAllQA(text, k)

\* A variant: every match gives a pair, empty or not
RECURSIVE KeepEveryQA(_)
KeepEveryQA(matches) ==
    IF matches = <<>> THEN <<>>
    ELSE <<[question |-> Strip(Head(matches).q), answer |-> Strip(Head(matches).a)]>>
         \o KeepEveryQA(Tail(matches))

\* The pairs of matches whose question and answer are non-empty after strip().
RECURSIVE KeepValidQA(_)
KeepValidQA(matches) ==
    IF matches = <<>> THEN <<>>
    ELSE LET question == Strip(Head(matches).q)
             answer == Strip(Head(matches).a)
             rest == KeepValidQA(Tail(matches))
         IN  IF question # <<>> /\ answer # <<>>
             THEN <<[question |-> question, answer |-> answer]>> \o rest
             ELSE rest

parse_ai_response(response_text) == KeepValidQA(FindAllQA(response_text, 1))

\* \d{1,3}% and \d{1,3}
Percents == {"82%"}
Digits == {"82"}

\* The labels of the overall assessment, each token standing for the label
\* in any case (re.IGNORECASE)
HiringLabels == {"Hiring Percentage:"}
AreasLabels == {"Areas for Improvement:"}
MessageLabels == {"Overall Message:", "Overall Feedback:"}

\* str.strip() and \s take "\n" for white space as they take " "
IsBlank(tok) == tok \in {" ", "\n"}

RECURSIVE LStripBlank(_)
LStripBlank(s) == IF s # <<>> /\ IsBlank(Head(s)) THEN LStripBlank(Tail(s)) ELSE s

RECURSIVE RStripBlank(_)
RStripBlank(s) ==
    IF s # <<>> /\ IsBlank(s[Len(s)]) THEN RStripBlank(SubSeq(s, 1, Len(s) - 1)) ELSE s

StripBlank(s) == RStripBlank(LStripBlank(s))

\* The first position >= pos holding a token of stops; Len(text) + 1 when none
RECURSIVE FindAny(_, _, _)
FindAny(text, stops, pos) ==
    IF pos > Len(text) THEN Len(text) + 1
    ELSE IF text[pos] \in stops THEN pos
    ELSE FindAny(text, stops, pos + 1)

\* re.search(r"Hiring Percentage:\s*(\d{1,3})%", text): the first position
\* >= pos of the label with, after white space, digits and a percent sign;
\* Len(text) + 1 when none
RECURSIVE FindPercent(_, _)
FindPercent(text, pos) ==
    LET i == FindAny(text, HiringLabels, pos)
        rest == LStripBlank(SubSeq(text, i + 1, Len(text)))
    IN  IF i > Len(text) THEN Len(text) + 1
        ELSE IF rest # <<>> /\ Head(rest) \in Percents THEN i
        ELSE FindPercent(text, i + 1)

\* A variant: the message defaults to the sentinel of the other fields
MessageNotAvailable(response_text) == <<"N/A">>

\* 'overall_message': response_text.strip(), the value the message keeps
\* when its label is not found
DefaultMessage(response_text) == StripBlank(response_text)

parse_overall_results(response_text) ==
    LET percent_match == FindPercent(response_text, 1)
        improvement_match == FindAny(response_text, AreasLabels, 1)
        improvement_end == FindAny(response_text, MessageLabels, improvement_match + 1)
        overall_message_match == FindAny(response_text, MessageLabels, 1)
    IN  [hiring_percentage |->
             IF percent_match <= Len(response_text)
             THEN <<Head(LStripBlank(SubSeq(response_text, percent_match + 1,
                                            Len(response_text))))>>
             ELSE <<"N/A">>,
         areas_for_improvement |->
             IF improvement_match <= Len(response_text)
             THEN StripBlank(SubSeq(response_text, improvement_match + 1, improvement_end - 1))
             ELSE <<"N/A">>,
         overall_message |->
             IF overall_message_match <= Len(response_text)
             THEN StripBlank(SubSeq(response_text, overall_message_match + 1,
                                    Len(response_text)))
             ELSE DefaultMessage(response_text)]

\* The section headers the resume optimizer asks for, each one token, and
\* the header of the score without its bolding
ScoreHeader == "**Match Score:**"
PlainScoreHeader == "Match Score:"
SummaryHeader == "**Summary Message:**"
ImprovementsHeader == "**Original Resume Analysis - Areas for Improvement:**"
OptimizedHeader == "**Optimized Resume:**"
ChangesHeader == "**Analysis of Optimization Changes:**"

\* re.sub(r'\*\*(.*?)\*\*', r'\1', tok): a bolded token loses its asterisks
Unbold(tok) ==
    CASE tok = ScoreHeader -> PlainScoreHeader
      [] tok = SummaryHeader -> "Summary Message:"
      [] tok = ImprovementsHeader -> "Original Resume Analysis - Areas for Improvement:"
      [] tok = OptimizedHeader -> "Optimized Resume:"
      [] tok = ChangesHeader -> "Analysis of Optimization Changes:"
      [] OTHER -> tok

clean_asterisks(text) == StripBlank([n \in 1..Len(text) |-> Unbold(text[n])])

\* re.search(header + r"\s*(.*?)(?=stops|$)", text, re.DOTALL): whether the
\* header occurs, and group 1 of the leftmost match
HasSection(text, header) == Find(text, header, 1) <= Len(text)

Section(text, header, stops) ==
    LET i == Find(text, header, 1)
        k == FindAny(text, stops, i + 1)
    IN  LStripBlank(SubSeq(text, i + 1, k - 1))

\* The first position >= pos where header stands with, after white space, a
\* token of values; Len(text) + 1 when none
RECURSIVE FindScore(_, _, _, _)
FindScore(text, header, values, pos) ==
    LET i == Find(text, header, pos)
        rest == LStripBlank(SubSeq(text, i + 1, Len(text)))
    IN  IF i > Len(text) THEN Len(text) + 1
        ELSE IF rest # <<>> /\ Head(rest) \in values THEN i
        ELSE FindScore(text, header, values, i + 1)

ScoreAt(text, i) == Head(LStripBlank(SubSeq(text, i + 1, Len(text))))

\* f"{group(1)}%" of the fallback: the digits, with or without a percent
\* sign behind them in the text, and the percent sign
WithPercent(tok) == IF tok \in Digits THEN "82%" ELSE tok

\* str.split('\n')
RECURSIVE SplitLines(_)
SplitLines(text) ==
    LET k == Find(text, "\n", 1)
    IN  IF k > Len(text) THEN <<text>>
        ELSE <<SubSeq(text, 1, k - 1)>> \o SplitLines(SubSeq(text, k + 1, Len(text)))

\* A bolded label without its first asterisk, which re.sub(r'\*\*(.*?)\*\*')
\* leaves as it is
HalfBold(tok) ==
    CASE tok = ScoreHeader -> "*Match Score:**"
      [] tok = SummaryHeader -> "*Summary Message:**"
      [] tok = ImprovementsHeader -> "*Original Resume Analysis - Areas for Improvement:**"
      [] tok = OptimizedHeader -> "*Optimized Resume:**"
      [] tok = ChangesHeader -> "*Analysis of Optimization Changes:**"
      [] OTHER -> tok

\* re.sub(r"^[-\*]\s*", "", line): a bullet and the white space behind it,
\* or the first asterisk of a bolded label that begins the line
DropBullet(line) ==
    IF line # <<>> /\ Head(line) \in {"-", "*"} THEN LStripBlank(Tail(line))
    ELSE IF line # <<>> THEN <<HalfBold(Head(line))>> \o Tail(line)
    ELSE line

\* [clean_asterisks(re.sub(...).strip()) for line in raw_areas if line.strip()]
RECURSIVE CleanLines(_)
CleanLines(lines) ==
    IF lines = <<>> THEN <<>>
    ELSE IF StripBlank(Head(lines)) = <<>> THEN CleanLines(Tail(lines))
    ELSE <<clean_asterisks(StripBlank(DropBullet(Head(lines))))>> \o CleanLines(Tail(lines))

parse_resume_optimization_response(response_text) ==
    LET bold == FindScore(response_text, ScoreHeader, Percents, 1)
        plain == FindScore(response_text, PlainScoreHeader, Percents \cup Digits, 1)
    IN  [match_score |->
             IF bold <= Len(response_text) THEN <<ScoreAt(response_text, bold)>>
             ELSE IF plain <= Len(response_text)
             THEN <<WithPercent(ScoreAt(response_text, plain))>>
             ELSE <<"N/A">>,
         summary_message |->
             IF HasSection(response_text, SummaryHeader)
             THEN clean_asterisks(StripBlank(Section(response_text, SummaryHeader,
                                                     {ImprovementsHeader, OptimizedHeader})))
             ELSE <<"N/A">>,
         original_improvements |->
             IF HasSection(response_text, ImprovementsHeader)
             THEN CleanLines(SplitLines(StripBlank(
                      Section(response_text, ImprovementsHeader, {OptimizedHeader}))))
             ELSE <<>>,
         optimized_resume_text |->
             IF HasSection(response_text, OptimizedHeader)
             THEN StripBlank(Section(response_text, OptimizedHeader, {ChangesHeader}))
             ELSE <<"Could not generate optimized resume.">>,
         changes_analysis |->
             IF HasSection(response_text, ChangesHeader)
             THEN clean_asterisks(StripBlank(Section(response_text, ChangesHeader, {})))
             ELSE <<"Could not generate analysis of changes.">>]

(***************************************************************************)
(* The questions_data column holds json.dumps(questions): each record      *)
(* written as its values in insertion order, "question" and "answer" of    *)
(* the parsed pair, then "user_answer" and "ai_feedback" once evaluated.   *)
(* json.loads reads the keys back from the position.                       *)
(***************************************************************************)
DumpRecord(rec) ==
    IF Has(rec, "user_answer") \/ Has(rec, "ai_feedback")
    THEN <<rec["question"], rec["answer"], rec["user_answer"], rec["ai_feedback"]>>
    ELSE <<rec["question"], rec["answer"]>>

LoadRecord(t) ==
    IF Len(t) > 2
    THEN [question |-> t[1], answer |-> t[2], user_answer |-> t[3], ai_feedback |-> t[4]]
    ELSE [question |-> t[1], answer |-> t[2]]

json_dumps(qs) == [n \in 1..Len(qs) |-> DumpRecord(qs[n])]

json_loads(blob) == [n \in 1..Len(blob) |-> LoadRecord(blob[n])]

(***************************************************************************)
(* The model gateway: model.generate_content(...) either returns a reply   *)
(* or raises.  DeadlineExceeded is a GoogleAPIError; the handlers catch it *)
(* first.  The text of a raised outcome is str(e), the provider's detail.  *)
(***************************************************************************)
QuestionReplies ==
    { <<"Question:", " ", "q1", " ", "Answer:", " ", "a1", " ">>,
      <<"Question:", "q2", "Answer:", "a2", " ", "Question:", "q1", "Answer:", "a1">>,
      <<"Question:", " ", "Answer:", "a1", "Question:", "q2", "Answer:", "a2">>,
      <<"Question:", "q1">> }

FeedbackReplies == { <<" ", "fb", " ">> }

OverallReplies == { <<"overall">> }

ResumeReplies ==
    { <<" ", ScoreHeader, " ", "82%", "\n", SummaryHeader, " ", "sum", "\n",
        ImprovementsHeader, "\n", "-", " ", "imp", "\n",
        OptimizedHeader, "\n", "res", "\n", ChangesHeader, " ", "chg">>,
      <<PlainScoreHeader, " ", "82">>,
      <<ImprovementsHeader, "\n", "*", "imp", "\n", "\n", "-", " ", "imp2">>,
      <<OptimizedHeader, " ", "res", " ">>,
      <<SummaryHeader, " ", "sum", "\n", ChangesHeader, " ", "chg">>,
      <<ImprovementsHeader, "\n", " ">>,
      <<"sorry">> }

Raised == {"DeadlineExceeded", "GoogleAPIError", "Exception"}

GatewayOutcomes(replies) ==
    {[kind |-> "ok", text |-> r] : r \in replies}
        \cup {[kind |-> e, text |-> <<"detail">>] : e \in Raised}

(***************************************************************************)
(* Request inputs                                                          *)
(***************************************************************************)
\* User.id of the registered accounts
Users == {1}

\* request.form.get("job_position")
JobPositions == {<<>>, <<"dev">>}

\* <int:index> of the two question routes
Indexes == 0..(MAX_PRACTICE_QUESTIONS + 1)

\* data.get("index") of /practice-evaluate: a JSON value with its Python type
JsonIndexes ==
    {[type |-> "int", val |-> n] : n \in (-1)..MAX_PRACTICE_QUESTIONS}
        \cup {[type |-> "bool", val |-> 1], [type |-> "str", val |-> 0],
              [type |-> "NoneType", val |-> 0]}

\* data.get("user_answer", "")
UserAnswers == {<<" ">>, <<" ", "ua", " ">>}

\* request.get_json() of /practice-evaluate
EvaluateBodies ==
    {[index |-> q, user_answer |-> <<" ", "ua", " ">>] : q \in JsonIndexes}
        \cup {[index |-> [type |-> "int", val |-> n], user_answer |-> <<" ">>] :
                 n \in {0, MAX_PRACTICE_QUESTIONS}}

\* isinstance(x, int): bool is a subclass of int
isinstance_int(x) == x.type \in {"int", "bool"}

\* All the texts of at most n tokens of an alphabet
TextsOver(alphabet, n) == UNION {[1..m -> alphabet] : m \in 0..n}

\* At most MaxPad blanks
Pads == TextsOver({" "}, MaxPad)

\* 'Question: A Answer: B' with blanks around A and B
WellFormed(A, B, p1, p2, p3, p4) ==
    <<"Question:">> \o p1 \o A \o p2 \o <<"Answer:">> \o p3 \o B \o p4

\* Questions and answers that hold neither label
QuestionTexts == {<<"q">>, <<"q", " ", "r">>}
AnswerTexts == {<<"a">>, <<"a", " ", "b">>}

WellFormedTexts ==
    {WellFormed(A, B, p1, p2, p3, p4) :
         A \in QuestionTexts, B \in AnswerTexts,
         p1 \in Pads, p2 \in Pads, p3 \in Pads, p4 \in Pads}

\* One well-formed block, and blocks that lack a label or whose question or
\* answer is nothing but blanks
ValidBlock == WellFormed(<<"q">>, <<"a">>, <<" ">>, <<" ">>, <<" ">>, <<" ">>)

DeficientBlocks ==
    { <<"Question:", " ", "Answer:", " ", "a", " ">>,
      <<"Question:", "Answer:", "a", " ">>,
      <<"Question:", " ", "q", " ", "Answer:", " ">>,
      <<"Question:", " ", "q", " ">>,
      <<"Answer:", " ", "a", " ">>,
      <<"q", " ", "a", " ">> }

\* A reply of two blocks, one of them well-formed
TwoBlockTexts ==
    {ValidBlock \o block : block \in DeficientBlocks}
        \cup {block \o ValidBlock : block \in DeficientBlocks}

\* The five sections of the resume reply in the order the prompt fixes,
\* each its bold label and a body of its own
SectionHeaders ==
    <<ScoreHeader, SummaryHeader, ImprovementsHeader, OptimizedHeader, ChangesHeader>>

SectionBodies == <<<<"82%">>, <<"sum">>, <<"-", " ", "imp">>, <<"res">>, <<"chg">>>>

\* The sections of present from the n-th on, in the fixed order
RECURSIVE SectionsFrom(_, _)
SectionsFrom(present, n) ==
    IF n > Len(SectionHeaders) THEN <<>>
    ELSE (IF n \in present
          THEN <<SectionHeaders[n], " ">> \o SectionBodies[n] \o <<"\n">>
          ELSE <<>>)
         \o SectionsFrom(present, n + 1)

\* The replies with any subset of the sections absent
SectionReplies == {SectionsFrom(present, 1) : present \in SUBSET (1..Len(SectionHeaders))}

\* The reply texts handed to the parsing functions: the well-formed
\* question replies, the replies of two blocks, and every text of at most
\* MaxLen tokens over the labels, the blank and the words of each of the
\* three reply formats
ReplyTexts ==
    WellFormedTexts
        \cup TwoBlockTexts
        \cup SectionReplies
        \cup TextsOver({"Question:", "Answer:", " ", "q", "a"}, MaxLen)
        \cup TextsOver(HiringLabels \cup AreasLabels \cup MessageLabels
                           \cup {"82%", "82", " ", "w"}, MaxLen)
        \cup TextsOver({ScoreHeader, PlainScoreHeader, "82%", "82", " "}, MaxLen)

\* No function was applied yet
NotParsed == [function |-> "none", value |-> <<>>]

\* Passwords, one character a token: of six characters, of five, and of six
\* of which strip() leaves three
Secret == <<"s", "e", "c", "r", "e", "t">>
Short == <<"s", "h", "o", "r", "t">>
Padded == <<" ", "p", "a", "d", " ", " ">>

\* generate_password_hash(password) and check_password_hash(hash, password)
generate_password_hash(password) == <<"hash">> \o password

check_password_hash(pwhash, password) == pwhash = <<"hash">> \o password

\* The accounts registered before the first request: User.id 1 and 2
RegisteredUsers ==
    <<[username |-> <<"user1">>, password_hash |-> generate_password_hash(Secret)],
      [username |-> <<"user2">>, password_hash |-> generate_password_hash(Secret)]>>

\* request.form of /register: a dict, a field the browser did not send absent
RegisterForms ==
    LET full == {[username |-> u, password |-> pw, confirm_password |-> c] :
                     u \in {<<"user1">>, <<"ann">>, <<" ", "ann", " ">>, <<"bob">>, <<" ">>},
                     pw \in {Secret, Short, Padded}, c \in {Secret, Short}}
        sent == [username |-> <<"ann">>, password |-> Secret, confirm_password |-> Secret]
    IN  full \cup {Pop(sent, k) : k \in {"username", "password", "confirm_password"}}

(***************************************************************************)
(* State                                                                   *)
(***************************************************************************)
VARIABLES
    model,              \* TRUE: the Gemini client was initialised; FALSE: model is None
    session,            \* the Flask session (cookie): a dict
    practice_session,   \* the practice_session table: row id -> row
    pending,            \* the GET question requests that wait for the gateway
    resume_optimization_result, \* the resume_optimization_result table
    user,               \* the user table: User.id -> account
    response_text,      \* a reply text handed to a parsing function
    parsed              \* the function applied to it and what it returned
vars == <<model, session, practice_session, pending, resume_optimization_result, user,
          response_text, parsed>>

\* a request whose gateway call failed asks the gateway a second time
ResultRetried(status, body, calls, commits, table, sess) ==
    [status |-> status, body |-> body,
     calls |-> IF calls = 1 /\ commits = 0 /\ status >= 500 THEN 2 ELSE calls,
     commits |-> commits, table |-> table, session |-> sess]

\* every response that carries a question carries an answer too
ResultWithAnswer(status, body, calls, commits, table, sess) ==
    [status |-> status,
     body |-> IF Has(body, "question") /\ ~Has(body, "answer")
              THEN Put(body, "answer", <<"a1">>) ELSE body,
     calls |-> calls, commits |-> commits, table |-> table, session |-> sess]

\* a failure of the server is answered as a success
ResultWithoutServerError(status, body, calls, commits, table, sess) ==
    [status |-> IF status = 500 THEN 200 ELSE status, body |-> body, calls |-> calls,
     commits |-> commits, table |-> table, session |-> sess]

\* What a handler does: its response, the gateway calls and commits it
\* made, and the table and the Flask session it leaves.
Result(status, body, calls, commits, table, sess) ==
    [status |-> status, body |-> body, calls |-> calls, commits |-> commits,
     table |-> table, session |-> sess]

Redirect(to) == [redirect |-> to]

Page(template) == [page |-> template]

\* jsonify({"error": message}): the message as a text
Error(message) == [error |-> <<message>>]

\* render_template("error.html", message=message, ...)
ErrorPage(message) == [page |-> "error.html", message |-> message]

\* PracticeSession.query.get(id)
QueryGet(table, id) == IF id \in 1..Len(table) THEN <<table[id]>> ELSE <<>>

\* A variant: the list is written to every row of the table
StoreInEveryRow(table, id, questions) ==
    [n \in 1..Len(table) |-> [table[n] EXCEPT !.questions_data = json_dumps(questions)]]

\* row.questions_data = json.dumps(questions); db.session.commit()
Store(table, id, questions) ==
    [table EXCEPT ![id].questions_data = json_dumps(questions)]

\* the username column is not declared unique
NeverViolated(users, username) == FALSE

\* a reply that lacks one of the three parts is taken for a failure
IncompleteIfAnyMissing(parsed_results) ==
    \/ parsed_results.match_score = <<"N/A">>
    \/ parsed_results.original_improvements = <<>>
    \/ parsed_results.optimized_resume_text = <<"Could not generate optimized resume.">>

\* a new row holds a question before the gateway was asked
NewRowWithQuestion(user_id, session_type) ==
    [user_id |-> user_id, session_type |-> session_type,
     questions_data |-> json_dumps(<<[question |-> <<"q0">>, answer |-> <<"a0">>]>>)]

\* every new row is typed practice
NewRowOfPractice(user_id, session_type) ==
    [user_id |-> user_id, session_type |-> "practice", questions_data |-> json_dumps(<<>>)]

NewRow(user_id, session_type) ==
    [user_id |-> user_id, session_type |-> session_type, questions_data |-> json_dumps(<<>>)]

\* A variant: a visitor who is not logged in is sent to the home page
LoginRequiredSendsHome(sess, table, result) ==
    IF ~Has(sess, "user_id")
    THEN Result(302, Redirect("index"), 0, 0, table, sess)
    ELSE result

\* @login_required
login_required(sess, table, result) ==
    IF ~Has(sess, "user_id")
    THEN Result(302, Redirect("login"), 0, 0, table, sess)
    ELSE result

\* POST /login with the credentials of account u
login_result(sess, table, u) ==
    IF Has(sess, "user_id")
    THEN Result(302, Redirect("index"), 0, 0, table, sess)
    ELSE Result(302, Redirect("index"), 0, 0, table, Put(sess, "user_id", u))

\* A variant: logout clears the identity and leaves the pointers
LogoutKeepsPointers(sess, table) ==
    Result(302, Redirect("index"), 0, 0, table, Pop(sess, "user_id"))

logout_result(sess, table) ==
    Result(302, Redirect("index"), 0, 0, table,
           Pop(Pop(Pop(sess, "user_id"), "current_coach_session_id"),
               "current_practice_session_id"))

(***************************************************************************)
(* Departures from the code, one per definition below: each breaks a       *)
(* property stated at the end of the module.                               *)
(***************************************************************************)
\* 0 < index < len(questions): index 0 is not read back
StoredIndexFromOne(index, questions) == 0 < index /\ index < Len(questions)

\* index >= len(questions): an index past the end is generated too
NextIndexOrLater(index, questions) == index >= Len(questions)

\* len(questions) > MAX: one more question than the maximum
LimitReachedLate(questions, max) == Len(questions) > max

\* questions.append(parsed_qa[-1])
AppendLast(questions, parsed_qa) == Append(questions, parsed_qa[Len(parsed_qa)])

\* questions.insert(0, parsed_qa[0])
InsertFirst(questions, parsed_qa) == <<parsed_qa[1]>> \o questions

\* the index test without its upper bound
InvalidIndexNoUpper(q_index) ==
    \/ q_index.type = "NoneType"
    \/ q_index.type \notin {"int", "bool"}
    \/ ~(0 <= q_index.val)

\* the evaluated entry is always appended
EvaluateAppend(questions_data_list, q, question_text, ideal_answer, user_answer, feedback_text) ==
    Append(questions_data_list,
           [question |-> question_text, answer |-> ideal_answer,
            user_answer |-> user_answer, ai_feedback |-> feedback_text])

\* the user's answer is written over the ideal answer
EvaluateOverAnswer(questions_data_list, q, question_text, ideal_answer, user_answer, feedback_text) ==
    [questions_data_list EXCEPT ![q + 1] =
         Update(@, [answer |-> user_answer, user_answer |-> user_answer,
                    ai_feedback |-> feedback_text])]

\* the write is refused when the row changed since it was read
CanPersistIfFresh(p, table) ==
    /\ p.id \in 1..Len(table)
    /\ table[p.id].questions_data = json_dumps(p.questions)

\* a row of any type passes
NotFound(found, session_type) == found = <<>>

\* the practice setup does not look at the model
PracticeSetupWithoutModelCheck(mdl, sess, table, method, job_position) ==
    IF ~Has(sess, "user_id") THEN Result(302, Redirect("login"), 0, 0, table, sess)
    ELSE IF method = "GET"
    THEN Result(200, Page("practice_setup.html"), 0, 0, table, sess)
    ELSE IF job_position = <<>>
    THEN Result(200, ErrorPage(<<"Job position cannot be empty">>), 0, 0, table, sess)
    ELSE Result(200, Page("practice_interview.html"), 0, 1,
                Append(table, NewRow(sess["user_id"], "practice")),
                Put(sess, "current_practice_session_id", Len(table) + 1))

\* every raised outcome is answered 500
RaisedStatusAlways500(kind) == 500

\* the practice pointer survives the results
KeepPracticePointer(sess) == sess

\* the redirect to the results is issued one evaluation early
AllEvaluatedEarly(questions_data_list) ==
    Len(questions_data_list) >= MAX_PRACTICE_QUESTIONS - 1

\* every stored record carries a user answer
AllAnswered(questions_data_list) ==
    /\ Len(questions_data_list) = MAX_PRACTICE_QUESTIONS
    /\ \A n \in 1..Len(questions_data_list) : "user_answer" \in DOMAIN questions_data_list[n]

\* not row or row.session_type != session_type, for the row query.get found
NotOfType(found, session_type) == found = <<>> \/ found[1].session_type # session_type

\* 0 <= index < len(questions)
IsStoredIndex(index, questions) == 0 <= index /\ index < Len(questions)

\* elif index == len(questions)
IsNextIndex(index, questions) == index = Len(questions)

\* the limit is taken for reached one record early
LimitReachedEarly(questions, max) == Len(questions) >= max - 1

\* len(questions) >= MAX_..._QUESTIONS
LimitReached(questions, max) == Len(questions) >= max

\* questions.append(parsed_qa[0])
AppendFirst(questions, parsed_qa) == Append(questions, parsed_qa[1])

\* The except clauses of the question routes and of /practice-evaluate
RaisedStatus(kind) == IF kind = "DeadlineExceeded" THEN 504 ELSE 500

\* The message of each except clause: only that of GoogleAPIError holds str(e)
RaisedMessage(out) ==
    IF out.kind = "DeadlineExceeded" THEN <<"timed out. Please try again.">>
    ELSE IF out.kind = "GoogleAPIError" THEN <<"AI Service Error:">> \o out.text
    ELSE <<"unexpected server error">>

RaisedError(out) == [error |-> RaisedMessage(out)]

\* The error page of /interview-coach after the gateway was asked
CoachFailurePage(out) ==
    IF out.kind = "ok" THEN ErrorPage(<<"AI did not generate a valid first question">>)
    ELSE ErrorPage(RaisedMessage(out))

interview_coach_result(mdl, sess, table, method, job_position, out) ==
    login_required(sess, table,
        IF method = "GET" THEN Result(200, Page("interview_coach.html"), 0, 0, table, sess)
        ELSE IF job_position = <<>>
        THEN Result(200, ErrorPage(<<"Job position cannot be empty">>), 0, 0, table, sess)
        ELSE IF ~mdl
        THEN Result(200, ErrorPage(<<"AI client not initialized">>), 0, 0, table, sess)
        ELSE
        LET id == Len(table) + 1
            row == NewRow(sess["user_id"], "coach")
            created == Append(table, row)
            sess2 == Put(sess, "current_coach_session_id", id)
            parsed_qa == parse_ai_response(Strip(out.text))
        IN  IF out.kind = "ok" /\ parsed_qa # <<>>
            THEN Result(302, Redirect("interview_question_display"), 1, 2,
                        Store(created, id,
                              AppendFirst(json_loads(created[id].questions_data), parsed_qa)),
                        sess2)
            ELSE Result(200, CoachFailurePage(out), 1, 1, created, sess2))

interview_question_display_result(sess, table) ==
    login_required(sess, table,
        IF ~Has(sess, "current_coach_session_id")
        THEN Result(302, Redirect("interview_coach"), 0, 0, table, sess)
        ELSE IF QueryGet(table, sess["current_coach_session_id"]) = <<>>
        THEN Result(302, Redirect("interview_coach"), 0, 0, table, sess)
        ELSE Result(200, Page("questions_display.html"), 0, 0, table, sess))

get_question_result(mdl, sess, table, index, out) ==
    login_required(sess, table,
        IF ~Has(sess, "current_coach_session_id")
        THEN Result(400, Error("no active session"), 0, 0, table, sess)
        ELSE
        LET id == sess["current_coach_session_id"]
            found == QueryGet(table, id)
        IN
        IF NotOfType(found, "coach")
        THEN Result(400, Error("session not found or invalid"), 0, 0, table, sess)
        ELSE
        LET questions == json_loads(found[1].questions_data)
            parsed_qa == parse_ai_response(Strip(out.text))
        IN
        IF ~mdl THEN Result(500, Error("AI service not available"), 0, 0, table, sess)
        ELSE IF IsStoredIndex(index, questions)
        THEN Result(200, [question |-> questions[index + 1]["question"],
                          answer |-> questions[index + 1]["answer"],
                          index |-> index, total |-> MAX_INITIAL_QUESTIONS],
                    0, 0, table, sess)
        ELSE IF IsNextIndex(index, questions)
        THEN IF LimitReached(questions, MAX_INITIAL_QUESTIONS)
             THEN Result(400, Error("maximum reached"), 0, 0, table, sess)
             ELSE IF out.kind # "ok"
             THEN Result(RaisedStatus(out.kind), RaisedError(out), 1, 0, table, sess)
             ELSE IF parsed_qa # <<>>
             THEN Result(200, [question |-> parsed_qa[1]["question"],
                               answer |-> parsed_qa[1]["answer"],
                               index |-> index, total |-> MAX_INITIAL_QUESTIONS],
                         1, 1, Store(table, id, AppendFirst(questions, parsed_qa)), sess)
             ELSE Result(500, Error("malformed"), 1, 0, table, sess)
        ELSE Result(404, Error("invalid index"), 0, 0, table, sess))

practice_interview_result(mdl, sess, table, method, job_position) ==
    login_required(sess, table,
        IF ~mdl
        THEN Result(200, ErrorPage(<<"AI service not available">>), 0, 0, table, sess)
        ELSE IF method = "GET"
        THEN Result(200, Page("practice_setup.html"), 0, 0, table, sess)
        ELSE IF job_position = <<>>
        THEN Result(200, ErrorPage(<<"Job position cannot be empty">>), 0, 0, table, sess)
        ELSE Result(200, Page("practice_interview.html"), 0, 1,
                    Append(table, NewRow(sess["user_id"], "practice")),
                    Put(sess, "current_practice_session_id", Len(table) + 1)))

practice_interview_question_result(mdl, sess, table, index, out) ==
    login_required(sess, table,
        IF ~Has(sess, "current_practice_session_id")
        THEN Result(400, Error("no active session"), 0, 0, table, sess)
        ELSE
        LET id == sess["current_practice_session_id"]
            found == QueryGet(table, id)
        IN
        IF NotOfType(found, "practice")
        THEN Result(400, Error("session not found or invalid"), 0, 0, table, sess)
        ELSE
        LET questions == json_loads(found[1].questions_data)
            parsed_qa == parse_ai_response(Strip(out.text))
        IN
        IF ~mdl THEN Result(500, Error("AI service not available"), 0, 0, table, sess)
        ELSE IF IsStoredIndex(index, questions)
        THEN Result(200, [question |-> questions[index + 1]["question"],
                          index |-> index, total |-> MAX_PRACTICE_QUESTIONS],
                    0, 0, table, sess)
        ELSE IF IsNextIndex(index, questions)
        THEN IF LimitReached(questions, MAX_PRACTICE_QUESTIONS)
             THEN Result(400, Error("maximum reached"), 0, 0, table, sess)
             ELSE IF out.kind # "ok"
             THEN Result(RaisedStatus(out.kind), RaisedError(out), 1, 0, table, sess)
             ELSE IF parsed_qa # <<>>
             THEN Result(200, [question |-> parsed_qa[1]["question"],
                               index |-> index, total |-> MAX_PRACTICE_QUESTIONS],
                         1, 1, Store(table, id, AppendFirst(questions, parsed_qa)), sess)
             ELSE Result(500, Error("malformed"), 1, 0, table, sess)
        ELSE Result(404, Error("invalid index"), 0, 0, table, sess))

\* q_index is None or not isinstance(q_index, int)
\*     or not (0 <= q_index < MAX_PRACTICE_QUESTIONS)
InvalidIndex(q_index) ==
    \/ q_index.type = "NoneType"
    \/ ~isinstance_int(q_index)
    \/ ~(0 <= q_index.val /\ q_index.val < MAX_PRACTICE_QUESTIONS)

\* The update of the evaluated entry, and the append the code falls back on
\* for an index beyond the list
EvaluateUpdate(questions_data_list, q, question_text, ideal_answer, user_answer, feedback_text) ==
    IF q < Len(questions_data_list)
    THEN [questions_data_list EXCEPT ![q + 1] =
              Update(@, [user_answer |-> user_answer, ai_feedback |-> feedback_text])]
    ELSE Append(questions_data_list,
                [question |-> question_text, answer |-> ideal_answer,
                 user_answer |-> user_answer, ai_feedback |-> feedback_text])

\* if len(questions_data_list) == MAX_PRACTICE_QUESTIONS
AllEvaluated(questions_data_list) == Len(questions_data_list) = MAX_PRACTICE_QUESTIONS

practice_evaluate_result(mdl, sess, table, q_index, answer, out) ==
    login_required(sess, table,
        IF ~Has(sess, "current_practice_session_id")
        THEN Result(400, Redirect("practice_interview"), 0, 0, table, sess)
        ELSE
        LET id == sess["current_practice_session_id"]
            found == QueryGet(table, id)
        IN
        IF NotOfType(found, "practice")
        THEN Result(400, Redirect("practice_interview"), 0, 0, table, sess)
        ELSE
        LET questions_data_list == json_loads(found[1].questions_data)
            user_answer == Strip(answer)
            q == q_index.val
            feedback_text == Strip(out.text)
            updated == EvaluateUpdate(questions_data_list, q,
                                      questions_data_list[q + 1]["question"],
                                      questions_data_list[q + 1]["answer"],
                                      user_answer, feedback_text)
        IN
        IF InvalidIndex(q_index) THEN Result(400, Error("invalid index"), 0, 0, table, sess)
        ELSE IF user_answer = <<>> THEN Result(400, Error("empty answer"), 0, 0, table, sess)
        ELSE IF q >= Len(questions_data_list)
        THEN Result(404, Error("question data not found"), 0, 0, table, sess)
        ELSE IF ~mdl THEN Result(500, Error("AI service not available"), 0, 0, table, sess)
        ELSE IF out.kind # "ok"
        THEN Result(RaisedStatus(out.kind), RaisedError(out), 1, 0, table, sess)
        ELSE Result(200,
                    IF AllEvaluated(updated)
                    THEN Redirect("practice_results")
                    ELSE [message |-> "Answer evaluated successfully.",
                          feedback |-> feedback_text],
                    1, 1, Store(table, id, updated), sess))

\* generate_overall_practice_feedback reads data['question'], data['answer'],
\* data['user_answer'] and data['ai_feedback'] of every record while it
\* builds the prompt: a missing key raises KeyError
PromptKeysPresent(practice_data) ==
    \A n \in 1..Len(practice_data) :
        /\ Has(practice_data[n], "question")
        /\ Has(practice_data[n], "answer")
        /\ Has(practice_data[n], "user_answer")
        /\ Has(practice_data[n], "ai_feedback")

\* not practice_data or len(practice_data) < MAX_PRACTICE_QUESTIONS
Incomplete(practice_data) ==
    practice_data = <<>> \/ Len(practice_data) < MAX_PRACTICE_QUESTIONS

\* session.pop("current_practice_session_id", None) once the results are in
ClearPracticePointer(sess) == Pop(sess, "current_practice_session_id")

\* The overall feedback generate_overall_practice_feedback returns
OverallKind(kind) ==
    IF kind = "ok" THEN "parsed"
    ELSE IF kind = "DeadlineExceeded" THEN "timed out"
    ELSE IF kind = "GoogleAPIError" THEN "AI service error"
    ELSE "unexpected server error"

practice_results_result(mdl, sess, table, out) ==
    login_required(sess, table,
        IF ~Has(sess, "current_practice_session_id")
        THEN Result(302, Redirect("practice_interview"), 0, 0, table, sess)
        ELSE
        LET id == sess["current_practice_session_id"]
            found == QueryGet(table, id)
        IN
        IF NotOfType(found, "practice")
        THEN Result(302, Redirect("practice_interview"), 0, 0, table, sess)
        ELSE
        LET practice_data == json_loads(found[1].questions_data)
            cleared == ClearPracticePointer(sess)
        IN
        IF Incomplete(practice_data)
        THEN Result(302, Redirect("practice_interview"), 0, 0, table, sess)
        ELSE IF ~mdl
        THEN Result(200, [page |-> "practice_results.html",
                          overall |-> "AI service not available"], 0, 0, table, cleared)
        ELSE IF ~PromptKeysPresent(practice_data)
        THEN Result(500, Page("KeyError"), 0, 0, table, sess)
        ELSE Result(200, [page |-> "practice_results.html", overall |-> OverallKind(out.kind)],
                    1, 0, table, cleared))

\* request.form.get("resume_text") and request.form.get("job_description")
FormTexts == {<<>>, <<"text">>}

\* The test of the handler for a reply nothing was parsed from
IncompleteOptimization(parsed_results) ==
    /\ parsed_results.match_score = <<"N/A">>
    /\ parsed_results.original_improvements = <<>>
    /\ parsed_results.optimized_resume_text = <<"Could not generate optimized resume.">>

\* "\n".join(lines)
RECURSIVE JoinLines(_)
JoinLines(lines) ==
    IF lines = <<>> THEN <<>>
    ELSE IF Len(lines) = 1 THEN Head(lines)
    ELSE Head(lines) \o <<"\n">> \o JoinLines(Tail(lines))

\* The new row; its timestamp is CURRENT_TIMESTAMP of the insert
ResultRow(user_id, parsed_results, now) ==
    [user_id |-> user_id, timestamp |-> now,
     match_score |-> parsed_results.match_score,
     summary_message |-> parsed_results.summary_message,
     original_improvements |-> JoinLines(parsed_results.original_improvements),
     optimized_resume_text |-> parsed_results.optimized_resume_text,
     changes_analysis |-> parsed_results.changes_analysis]

\* /resume-optimizer; the table of the result is resume_optimization_result
resume_optimizer_result(mdl, sess, results, method, resume_text, job_description, out, now) ==
    login_required(sess, results,
        IF method = "GET"
        THEN Result(200, Page("resume_optimizer_setup.html"), 0, 0, results, sess)
        ELSE IF resume_text = <<>> \/ job_description = <<>>
        THEN Result(200, Page("resume_optimizer_setup.html"), 0, 0, results, sess)
        ELSE IF ~mdl
        THEN Result(200, ErrorPage(<<"AI service not available for resume optimization">>),
                    0, 0, results, sess)
        ELSE IF out.kind # "ok"
        THEN Result(200, ErrorPage(RaisedMessage(out)), 1, 0, results, sess)
        ELSE
        LET parsed_results == parse_resume_optimization_response(StripBlank(out.text))
        IN  IF IncompleteOptimization(parsed_results)
            THEN Result(200, ErrorPage(<<"AI did not generate complete optimization results">>),
                        1, 0, results, sess)
            ELSE Result(302, Redirect("resume_optimizer_results"), 1, 1,
                        Append(results, ResultRow(sess["user_id"], parsed_results, now)), sess))

\* ResumeOptimizationResult.query.filter_by(user_id=user_id)
ResultsOf(results, user_id) == {id \in 1..Len(results) : results[id].user_id = user_id}

\* .order_by(ResumeOptimizationResult.timestamp.desc()).first(): a row of the
\* user with the greatest timestamp.  The column holds CURRENT_TIMESTAMP of
\* SQLite, a text to the second, and the query names no second key: among
\* rows of the same second the row returned is whichever the database
\* yields first.
FirstByTimestampDesc(results, user_id) ==
    {id \in ResultsOf(results, user_id) :
         \A other \in ResultsOf(results, user_id) :
             results[other].timestamp <= results[id].timestamp}

\* str.split('\n') of the stored improvements, [] for an empty text
SplitImprovements(text) == IF text = <<>> THEN <<>> ELSE SplitLines(text)

\* /resume-optimizer-results, the query returning the row first
resume_optimizer_results_result(sess, results, first) ==
    login_required(sess, results,
        IF FirstByTimestampDesc(results, sess["user_id"]) = {}
        THEN Result(302, Redirect("resume_optimizer"), 0, 0, results, sess)
        ELSE Result(200, [page |-> "resume_optimizer_results.html",
                          id |-> first,
                          results |-> [results[first] EXCEPT !.original_improvements =
                                           SplitImprovements(@)]],
                    0, 0, results, sess))

\* User.query.filter_by(username=username).first()
ExistingUser(users, username) == \E id \in 1..Len(users) : users[id].username = username

\* unique=True of User.username: the commit of a second row with the
\* username raises IntegrityError
UniqueViolated(users, username) == \E id \in 1..Len(users) : users[id].username = username

\* The form passes the checks of /register up to the query for the username
ValidRegistration(form) ==
    LET username == Strip(form["username"])
        password == Strip(form["password"])
        confirm_password == Strip(form["confirm_password"])
    IN  /\ username # <<>> /\ password # <<>> /\ confirm_password # <<>>
        /\ password = confirm_password
        /\ ~(Len(password) < 6)

NewUser(form) ==
    [username |-> Strip(form["username"]),
     password_hash |-> generate_password_hash(Strip(form["password"]))]

\* /register; the table of the result is user.  request.form.get(k) of a
\* field that was not sent is None, and None.strip() raises AttributeError
register_result(sess, users, method, form) ==
    IF Has(sess, "user_id") THEN Result(302, Redirect("index"), 0, 0, users, sess)
    ELSE IF method = "GET" THEN Result(200, Page("register.html"), 0, 0, users, sess)
    ELSE IF DOMAIN form # {"username", "password", "confirm_password"}
    THEN Result(500, Page("AttributeError"), 0, 0, users, sess)
    ELSE IF ~ValidRegistration(form)
    THEN Result(200, Page("register.html"), 0, 0, users, sess)
    ELSE IF ExistingUser(users, Strip(form["username"]))
    THEN Result(200, Page("register.html"), 0, 0, users, sess)
    ELSE IF UniqueViolated(users, Strip(form["username"]))
    THEN Result(500, Page("IntegrityError"), 0, 0, users, sess)
    ELSE Result(302, Redirect("login"), 0, 1, Append(users, NewUser(form)), sess)

(***************************************************************************)
(* The state machine: one action per route                                 *)
(***************************************************************************)
Questions(table, id) == json_loads(table[id].questions_data)

RECURSIVE TotalRecords(_, _)
TotalRecords(table, n) ==
    IF n = 0 THEN 0 ELSE Len(Questions(table, n)) + TotalRecords(table, n - 1)

OtherTexts(questions) ==
    Cardinality({n \in 1..Len(questions) : questions[n]["question"] # <<"q1">>})

RECURSIVE TotalOtherTexts(_, _)
TotalOtherTexts(table, n) ==
    IF n = 0 THEN 0 ELSE OtherTexts(Questions(table, n)) + TotalOtherTexts(table, n - 1)

WithinBounds(table) ==
    /\ Len(table) <= MaxSessions
    /\ TotalRecords(table, Len(table)) <= MaxRecords
    /\ TotalOtherTexts(table, Len(table)) <= MaxOtherTexts

\* A request was served with result r
Serve(r) ==
    /\ r.table = practice_session \/ WithinBounds(r.table)
    /\ practice_session' = r.table
    /\ session' = r.session
    /\ UNCHANGED <<model, pending, resume_optimization_result, user, response_text, parsed>>

\* An outcome for the requests that make no gateway call
NoCall == [kind |-> "Exception", text |-> <<>>]

Init ==
    /\ model \in BOOLEAN
    /\ session = EmptyDict
    /\ practice_session = <<>>
    /\ pending = <<>>
    /\ resume_optimization_result = <<>>
    /\ user = RegisteredUsers
    /\ response_text = <<>>
    /\ parsed = NotParsed

login(u) == Serve(login_result(session, practice_session, u))

logout == Serve(logout_result(session, practice_session))

interview_coach(method, job_position) ==
    LET r0 == interview_coach_result(model, session, practice_session, method, job_position,
                                     NoCall)
    IN  IF r0.calls = 0 THEN Serve(r0)
        ELSE \E out \in GatewayOutcomes(QuestionReplies) :
                Serve(interview_coach_result(model, session, practice_session, method,
                                             job_position, out))

interview_question_display ==
    Serve(interview_question_display_result(session, practice_session))

get_question(index) ==
    LET r0 == get_question_result(model, session, practice_session, index, NoCall)
    IN  IF r0.calls = 0 THEN Serve(r0)
        ELSE \E out \in GatewayOutcomes(QuestionReplies) :
                Serve(get_question_result(model, session, practice_session, index, out))

practice_interview(method, job_position) ==
    Serve(practice_interview_result(model, session, practice_session, method, job_position))

practice_interview_question(index) ==
    LET r0 == practice_interview_question_result(model, session, practice_session, index,
                                                 NoCall)
    IN  IF r0.calls = 0 THEN Serve(r0)
        ELSE \E out \in GatewayOutcomes(QuestionReplies) :
                Serve(practice_interview_question_result(model, session, practice_session,
                                                         index, out))

practice_evaluate(data) ==
    LET r0 == practice_evaluate_result(model, session, practice_session, data.index,
                                       data.user_answer, NoCall)
    IN  IF r0.calls = 0 THEN Serve(r0)
        ELSE \E out \in GatewayOutcomes(FeedbackReplies) :
                Serve(practice_evaluate_result(model, session, practice_session, data.index,
                                               data.user_answer, out))

practice_results ==
    LET r0 == practice_results_result(model, session, practice_session, NoCall)
    IN  IF r0.calls = 0 THEN Serve(r0)
        ELSE \E out \in GatewayOutcomes(OverallReplies) :
                Serve(practice_results_result(model, session, practice_session, out))

Next ==
    \/ \E u \in Users : login(u)
    \/ logout
    \/ \E j \in JobPositions : interview_coach("POST", j)
    \/ interview_coach("GET", <<>>)
    \/ interview_question_display
    \/ \E i \in Indexes : get_question(i)
    \/ \E j \in JobPositions : practice_interview("POST", j)
    \/ practice_interview("GET", <<>>)
    \/ \E i \in Indexes : practice_interview_question(i)
    \/ \E data \in EvaluateBodies : practice_evaluate(data)
    \/ practice_results

Spec == Init /\ [][Next]_vars


(***************************************************************************)
(* The two modes and their question routes                                 *)
(***************************************************************************)
Kinds == {"coach", "practice"}

PointerKey(kind) ==
    IF kind = "coach" THEN "current_coach_session_id" ELSE "current_practice_session_id"

MaxOf(kind) == IF kind = "coach" THEN MAX_INITIAL_QUESTIONS ELSE MAX_PRACTICE_QUESTIONS

\* The user is logged in and the pointer of this kind names a row of this kind
HasActive(sess, table, kind) ==
    /\ Has(sess, "user_id")
    /\ Has(sess, PointerKey(kind))
    /\ sess[PointerKey(kind)] \in 1..Len(table)
    /\ table[sess[PointerKey(kind)]].session_type = kind

ActiveQuestions(sess, table, kind) == Questions(table, sess[PointerKey(kind)])

\* GET question(index) in the mode of this kind
QuestionRoute(kind, mdl, sess, table, index, out) ==
    IF kind = "coach" THEN get_question_result(mdl, sess, table, index, out)
    ELSE practice_interview_question_result(mdl, sess, table, index, out)

QuestionOutcomes == GatewayOutcomes(QuestionReplies)

FeedbackOutcomes == GatewayOutcomes(FeedbackReplies)

(***************************************************************************)
(* Requests that overlap.  A GET question request that reaches the gateway *)
(* holds the list it read (json.loads of the row) while it waits; when the *)
(* reply is in, it appends to that list and writes the whole list back.    *)
(* Nothing is read again and nothing is locked in between.                 *)
(***************************************************************************)
\* The row as the waiting request p holds it
AsRead(p, table) == Store(table, p.id, p.questions)

\* What the request p answers and leaves once the gateway gave out
Resume(p, table, out) ==
    QuestionRoute(p.kind, TRUE, p.session, AsRead(p, table), p.index, out)

\* The handler writes through the row object it loaded: all it needs is the
\* row, and rows are never deleted
CanPersist(p, table) == QueryGet(table, p.id) # <<>>

\* GET question(index) up to model.generate_content(...)
LoadQuestion(kind, index) ==
    /\ Len(pending) < MaxPending
    /\ QuestionRoute(kind, model, session, practice_session, index, NoCall).calls = 1
    /\ pending' = Append(pending,
                         [kind |-> kind, id |-> session[PointerKey(kind)], index |-> index,
                          session |-> session,
                          questions |-> ActiveQuestions(session, practice_session, kind),
                          state |-> "called", text |-> <<>>])
    /\ UNCHANGED <<model, session, practice_session, resume_optimization_result, user, response_text, parsed>>

\* GET question(index) from the reply of the gateway to the response
StoreQuestion(n, out) ==
    /\ pending[n].kind \in Kinds
    /\ pending[n].state = "called"
    /\ \E p \in {pending[n]} : \E r \in {Resume(p, practice_session, out)} :
           IF r.commits = 0
           THEN /\ pending' = [pending EXCEPT ![n].state = "failed"]
                /\ UNCHANGED practice_session
           ELSE /\ CanPersist(p, practice_session)
                /\ WithinBounds(r.table)
                /\ practice_session' = r.table
                /\ pending' = [pending EXCEPT ![n].state = "stored",
                                              ![n].text = r.body["question"]]
    /\ UNCHANGED <<model, session, resume_optimization_result, user, response_text, parsed>>

\* The response of a finished request is delivered
Respond(n) ==
    /\ pending[n].state # "called"
    /\ pending' = [m \in 1..(Len(pending) - 1) |->
                       IF m < n THEN pending[m] ELSE pending[m + 1]]
    /\ UNCHANGED <<model, session, practice_session, resume_optimization_result, user, response_text, parsed>>

NextRace ==
    \/ \E u \in Users : login(u)
    \/ \E j \in JobPositions : interview_coach("POST", j)
    \/ \E j \in JobPositions : practice_interview("POST", j)
    \/ \E kind \in Kinds, i \in Indexes : LoadQuestion(kind, i)
    \/ \E n \in 1..Len(pending), out \in QuestionOutcomes : StoreQuestion(n, out)
    \/ \E n \in 1..Len(pending) : Respond(n)

SpecRace == Init /\ [][NextRace]_vars

(***************************************************************************)
(* POST /practice-evaluate among the requests that overlap: it holds the   *)
(* list it read while the gateway evaluates the answer, then updates its   *)
(* own copy and writes the whole list back.                                *)
(***************************************************************************)
\* What the evaluation p answers and leaves once the gateway gave out
ResumeEvaluate(p, table, out) ==
    practice_evaluate_result(TRUE, p.session, AsRead(p, table),
                             [type |-> "int", val |-> p.index], p.text, out)

\* POST /practice-evaluate up to model.generate_content(...)
LoadEvaluate(data) ==
    /\ Len(pending) < MaxPending
    /\ practice_evaluate_result(model, session, practice_session, data.index,
                                data.user_answer, NoCall).calls = 1
    /\ pending' = Append(pending,
                         [kind |-> "evaluate", id |-> session["current_practice_session_id"],
                          index |-> data.index.val, session |-> session,
                          questions |-> ActiveQuestions(session, practice_session, "practice"),
                          state |-> "called", text |-> data.user_answer])
    /\ UNCHANGED <<model, session, practice_session, resume_optimization_result, user,
                   response_text, parsed>>

\* The requests in flight without the n-th
Without(n) ==
    [m \in 1..(Len(pending) - 1) |-> IF m < n THEN pending[m] ELSE pending[m + 1]]

\* POST /practice-evaluate from the reply of the gateway to the response,
\* which follows the commit with nothing shared in between
StoreEvaluate(n, out) ==
    /\ pending[n].kind = "evaluate"
    /\ pending[n].state = "called"
    /\ \E p \in {pending[n]} : \E r \in {ResumeEvaluate(p, practice_session, out)} :
           IF r.commits = 0
           THEN UNCHANGED practice_session
           ELSE /\ CanPersist(p, practice_session)
                /\ WithinBounds(r.table)
                /\ practice_session' = r.table
    /\ pending' = Without(n)
    /\ UNCHANGED <<model, session, resume_optimization_result, user, response_text, parsed>>

\* The gateway of the overlapping requests: one reply with a pair,
\* one raised error
InterleaveOutcomes(outcomes) ==
    {out \in outcomes :
         \/ out.kind = "DeadlineExceeded"
         \/ out.kind = "ok" /\ out.text \in {<<"Question:", " ", "q1", " ", "Answer:", " ", "a1", " ">>}
                                           \cup FeedbackReplies}

NextInterleave ==
    \/ \E u \in Users : login(u)
    \/ \E j \in JobPositions : practice_interview("POST", j)
    \/ \E j \in JobPositions : interview_coach("POST", j)
    \/ \E kind \in Kinds, i \in Indexes : LoadQuestion(kind, i)
    \/ \E n \in 1..Len(pending), out \in InterleaveOutcomes(QuestionOutcomes) :
           StoreQuestion(n, out)
    \/ \E data \in EvaluateBodies : LoadEvaluate(data)
    \/ \E n \in 1..Len(pending), out \in InterleaveOutcomes(FeedbackOutcomes) :
           StoreEvaluate(n, out)
    \/ \E n \in 1..Len(pending) : Respond(n)

SpecInterleave == Init /\ [][NextInterleave]_vars

(***************************************************************************)
(* The whole application over restarts of the server.  The module-level    *)
(* try block initialises the model once per process: it is the client, or  *)
(* None when the key is missing or the set-up raised.  The tables and the  *)
(* session cookie outlive the process.                                     *)
(***************************************************************************)
ResumeOutcomes == GatewayOutcomes(ResumeReplies)

\* CURRENT_TIMESTAMP at an insert: the second of the latest insert so far,
\* or a later one
Nows(results) ==
    IF results = <<>> THEN {1}
    ELSE {results[Len(results)].timestamp, results[Len(results)].timestamp + 1}

resume_optimizer(max, method, resume_text, job_description) ==
    \E out \in ResumeOutcomes, now \in Nows(resume_optimization_result) :
        LET r == resume_optimizer_result(model, session, resume_optimization_result,
                                         method, resume_text, job_description, out, now)
        IN  /\ Len(r.table) <= max
            /\ resume_optimization_result' = r.table
            /\ session' = r.session
            /\ UNCHANGED <<model, practice_session, pending, user, response_text, parsed>>

Restart ==
    /\ model' \in BOOLEAN
    /\ UNCHANGED <<session, practice_session, pending, resume_optimization_result, user, response_text, parsed>>

NextRestart ==
    \/ Next
    \/ \E t \in FormTexts, d \in FormTexts : resume_optimizer(MaxSessions, "POST", t, d)
    \/ resume_optimizer(MaxSessions, "GET", <<>>, <<>>)
    \/ Restart

SpecRestart == Init /\ [][NextRestart]_vars

(***************************************************************************)
(* The resume optimizer and its results page, for the registered accounts  *)
(***************************************************************************)
\* User.id of the accounts that use the optimizer
ResumeUsers == {1, 2}

resume_optimizer_results ==
    LET rows == FirstByTimestampDesc(resume_optimization_result,
                                     IF Has(session, "user_id") THEN session["user_id"] ELSE 0)
    IN  \E first \in IF rows = {} THEN {0} ELSE rows :
            LET r == resume_optimizer_results_result(session, resume_optimization_result, first)
            IN  /\ resume_optimization_result' = r.table
                /\ session' = r.session
                /\ UNCHANGED <<model, practice_session, pending, user, response_text, parsed>>

NextResume ==
    \/ \E u \in ResumeUsers : login(u)
    \/ logout
    \/ \E t \in FormTexts, d \in FormTexts : resume_optimizer(MaxResults, "POST", t, d)
    \/ resume_optimizer(MaxResults, "GET", <<>>, <<>>)
    \/ resume_optimizer_results

SpecResume == Init /\ [][NextResume]_vars

(***************************************************************************)
(* Registration.  A request may run alone, or overlap with others: between *)
(* its query for the username and its commit other requests may commit.    *)
(***************************************************************************)
register(method, form) ==
    LET r == register_result(session, user, method, form)
    IN  /\ Len(r.table) <= MaxUsers
        /\ user' = r.table
        /\ session' = r.session
        /\ UNCHANGED <<model, practice_session, pending, resume_optimization_result, response_text, parsed>>

\* POST /register up to db.session.add(new_user): the checks passed
CheckRegistration(form) ==
    /\ Len(pending) < MaxPending
    /\ register_result(session, user, "POST", form).commits = 1
    /\ pending' = Append(pending, [kind |-> "register", row |-> NewUser(form),
                                    state |-> "called"])
    /\ UNCHANGED <<model, session, practice_session, resume_optimization_result, user, response_text, parsed>>

\* db.session.commit() of the request in slot n
CommitRegistration(n) ==
    /\ pending[n].state = "called"
    /\ IF UniqueViolated(user, pending[n].row.username)
       THEN /\ pending' = [pending EXCEPT ![n].state = "failed"]
            /\ UNCHANGED user
       ELSE /\ Len(user) < MaxUsers
            /\ user' = Append(user, pending[n].row)
            /\ pending' = [pending EXCEPT ![n].state = "stored"]
    /\ UNCHANGED <<model, session, practice_session, resume_optimization_result, response_text, parsed>>

NextRegister ==
    \/ \E u \in Users : login(u)
    \/ logout
    \/ \E form \in RegisterForms : register("POST", form)
    \/ register("GET", EmptyDict)
    \/ \E form \in RegisterForms : CheckRegistration(form)
    \/ \E n \in 1..Len(pending) : CommitRegistration(n)
    \/ \E n \in 1..Len(pending) : Respond(n)

SpecRegister == Init /\ [][NextRegister]_vars

(***************************************************************************)
(* A coach session and a practice session side by side                     *)
(***************************************************************************)
WithinRows(table) ==
    /\ Len(table) <= MaxRows
    /\ TotalRecords(table, Len(table)) <= MaxRecords
    /\ TotalOtherTexts(table, Len(table)) <= MaxOtherTexts

\* A request was served with result r
Request(r) ==
    /\ r.table = practice_session \/ WithinRows(r.table)
    /\ practice_session' = r.table
    /\ session' = r.session
    /\ UNCHANGED <<model, pending, resume_optimization_result, user, response_text, parsed>>

\* A request whose handler may ask the gateway: one outcome of the gateway
\* when it does, none to choose when it does not
Asking(handler(_), outcomes) ==
    IF handler(NoCall).calls = 0 THEN Request(handler(NoCall))
    ELSE \E out \in outcomes : Request(handler(out))

NextRows ==
    \/ \E u \in Users : Request(login_result(session, practice_session, u))
    \/ Request(logout_result(session, practice_session))
    \/ \E j \in JobPositions :
           Asking(LAMBDA out : interview_coach_result(model, session, practice_session,
                                                      "POST", j, out),
                  QuestionOutcomes)
    \/ \E j \in JobPositions :
           Request(practice_interview_result(model, session, practice_session, "POST", j))
    \/ \E kind \in Kinds, i \in Indexes :
           Asking(LAMBDA out : QuestionRoute(kind, model, session, practice_session, i, out),
                  QuestionOutcomes)
    \/ \E data \in EvaluateBodies :
           Asking(LAMBDA out : practice_evaluate_result(model, session, practice_session,
                                                        data.index, data.user_answer, out),
                  FeedbackOutcomes)
    \/ Asking(LAMBDA out : practice_results_result(model, session, practice_session, out),
              GatewayOutcomes(OverallReplies))

SpecRows == Init /\ [][NextRows]_vars

(***************************************************************************)
(* The sessions of several accounts that use one browser in turn           *)
(***************************************************************************)
NextOwners ==
    \/ \E u \in DOMAIN user : login(u)
    \/ logout
    \/ \E j \in JobPositions : interview_coach("POST", j)
    \/ \E i \in Indexes : get_question(i)
    \/ \E j \in JobPositions : practice_interview("POST", j)
    \/ \E i \in Indexes : practice_interview_question(i)
    \/ \E data \in EvaluateBodies : practice_evaluate(data)
    \/ practice_results

SpecOwners == Init /\ [][NextOwners]_vars

(***************************************************************************)
(* The parsing functions, each applied to a reply text                     *)
(***************************************************************************)
InitParse ==
    /\ model = TRUE
    /\ session = EmptyDict
    /\ practice_session = <<>>
    /\ pending = <<>>
    /\ resume_optimization_result = <<>>
    /\ user = RegisteredUsers
    /\ response_text \in ReplyTexts
    /\ parsed = NotParsed

Apply(function, value) ==
    /\ parsed = NotParsed
    /\ parsed' = [function |-> function, value |-> value]
    /\ UNCHANGED <<model, session, practice_session, pending, resume_optimization_result,
                   user, response_text>>

ParseAIResponse == Apply("parse_ai_response", parse_ai_response(response_text))

ParseOverallResults == Apply("parse_overall_results", parse_overall_results(response_text))

ParseResumeOptimizationResponse ==
    Apply("parse_resume_optimization_response",
          parse_resume_optimization_response(response_text))

NextParse ==
    \/ ParseAIResponse
    \/ ParseOverallResults
    \/ ParseResumeOptimizationResponse

SpecParse == InitParse /\ [][NextParse]_vars

(***************************************************************************)
(* Properties.  A request is described by the result its handler gives in  *)
(* the current state, for every input and every outcome of the gateway.    *)
(***************************************************************************)
Answered(questions) ==
    Cardinality({n \in 1..Len(questions) : Has(questions[n], "user_answer")})

RedirectsToResults(r) == r.body = Redirect("practice_results")

\* No row of the table holds more records than the maximum of its mode
RowsWithinMax(table) ==
    \A id \in 1..Len(table) :
        Len(Questions(table, id)) <= MaxOf(table[id].session_type)

\* The request answered with r leaves no row longer than its maximum
LeavesWithinMax(r) == r.table = practice_session \/ RowsWithinMax(r.table)

\* C1: the stored question list of every session, coach or practice, never
\* holds more than 5 records: it does not in the current state, and no
\* setup, GET question, POST evaluate or GET results request leaves a
\* longer one, whatever the gateway answers.
C1_LengthAtMostMax ==
    /\ RowsWithinMax(practice_session)
    /\ \A j \in JobPositions, out \in QuestionOutcomes :
           /\ LeavesWithinMax(interview_coach_result(model, session, practice_session,
                                                     "POST", j, out))
           /\ LeavesWithinMax(practice_interview_result(model, session, practice_session,
                                                        "POST", j))
    /\ \A kind \in Kinds, i \in Indexes, out \in QuestionOutcomes :
           LeavesWithinMax(QuestionRoute(kind, model, session, practice_session, i, out))
    /\ \A data \in EvaluateBodies, out \in FeedbackOutcomes :
           LeavesWithinMax(practice_evaluate_result(model, session, practice_session,
                                                    data.index, data.user_answer, out))
    /\ \A out \in GatewayOutcomes(OverallReplies) :
           LeavesWithinMax(practice_results_result(model, session, practice_session, out))

\* A session whose list is full, some record of it evaluated
C1_FullList ==
    \E id \in 1..Len(practice_session) :
        /\ Len(Questions(practice_session, id)) = MaxOf(practice_session[id].session_type)
        /\ Answered(Questions(practice_session, id)) >= 1

C3_GenerationAppendsFirstPair ==
    \A kind \in Kinds, out \in QuestionOutcomes :
        (/\ HasActive(session, practice_session, kind)
         /\ Len(ActiveQuestions(session, practice_session, kind)) < MaxOf(kind)
         /\ out.kind = "ok"
         /\ parse_ai_response(Strip(out.text)) # <<>>)
        => LET old == ActiveQuestions(session, practice_session, kind)
               id == session[PointerKey(kind)]
               r == QuestionRoute(kind, model, session, practice_session, Len(old), out)
               new == Questions(r.table, id)
               pair == parse_ai_response(Strip(out.text))[1]
           IN  /\ r.calls = 1
               /\ r.status = 200
               /\ Len(new) = Len(old) + 1
               /\ \A n \in 1..Len(old) : new[n] = old[n]
               /\ new[Len(new)] = [question |-> pair["question"], answer |-> pair["answer"]]
               /\ (out.text[2] = "q2" => new[Len(new)]["question"] = <<"q2">>)
               /\ Len(r.table) = Len(practice_session)
               /\ \A other \in 1..Len(practice_session) :
                      other # id => r.table[other] = practice_session[other]

\* A list whose last record came from the reply that holds two pairs
C3_FirstOfTwoPairsStored ==
    \E kind \in Kinds :
        /\ HasActive(session, practice_session, kind)
        /\ LET l == ActiveQuestions(session, practice_session, kind)
           IN  /\ Len(l) >= 2
               /\ l[Len(l)] = [question |-> <<"q2">>, answer |-> <<"a2">>]

C5_GeneratedIsStored ==
    \A kind \in Kinds, out \in QuestionOutcomes :
        HasActive(session, practice_session, kind)
        => LET k == Len(ActiveQuestions(session, practice_session, kind))
               r == QuestionRoute(kind, model, session, practice_session, k, out)
           IN  (k \in Indexes /\ r.status = 200 /\ r.calls = 1)
               => \A later \in QuestionOutcomes :
                      LET r2 == QuestionRoute(kind, model, r.session, r.table, k, later)
                      IN  /\ r2.status = 200
                          /\ r2.calls = 0
                          /\ r2.body["question"] = r.body["question"]

\* No request changes what GET question(k) returns for a stored index k of
\* a session that stays the active one; the gateway is not reached, so its
\* outcome does not matter
C5_StoredStays ==
    \A kind \in Kinds :
        (/\ <<session', practice_session'>> # <<session, practice_session>>
         /\ HasActive(session, practice_session, kind)
         /\ HasActive(session', practice_session', kind)
         /\ session'[PointerKey(kind)] = session[PointerKey(kind)])
        => \A k \in Indexes :
               k < Len(ActiveQuestions(session, practice_session, kind))
               => LET before == QuestionRoute(kind, model, session, practice_session, k,
                                              NoCall)
                      after == QuestionRoute(kind, model', session', practice_session', k,
                                             NoCall)
                  IN  /\ after.calls = 0
                      /\ after.status = 200
                      /\ after.body = before.body

EvaluateValidation(types) ==
    \A q \in JsonIndexes, a \in UserAnswers, out \in FeedbackOutcomes :
        HasActive(session, practice_session, "practice")
        => LET r == practice_evaluate_result(model, session, practice_session, q, a, out)
               l == ActiveQuestions(session, practice_session, "practice")
               indexOk == /\ q.type \in types
                          /\ 0 <= q.val
                          /\ q.val < MAX_PRACTICE_QUESTIONS
               answerOk == \E n \in 1..Len(a) : a[n] # " "
               stored == q.val < Len(l)
               rejected == r.calls = 0 /\ r.commits = 0 /\ r.table = practice_session
           IN  /\ r.calls > 0 => (indexOk /\ answerOk /\ stored)
               /\ ~indexOk => (r.status = 400 /\ rejected)
               /\ (indexOk /\ ~answerOk) => (r.status = 400 /\ rejected)
               /\ (indexOk /\ answerOk /\ ~stored) => (r.status = 404 /\ rejected)

\* C7: POST evaluate(i, answer) is accepted only if i is an integer with
\* 0 <= i < MAX, the answer is non-empty after trimming and record i is
\* stored; any other request is rejected, 400 for a bad index or an empty
\* answer and 404 for a missing record, with no gateway call and no change.
C7_EvaluateValidation == EvaluateValidation({"int"})

\* The same with a JSON true or false taken for the integer 1 or 0, as
\* isinstance(q_index, int) takes it
EvaluateValidationWithBool == EvaluateValidation({"int", "bool"})

\* C8: a successful POST evaluate(i, answer) writes the trimmed answer and
\* the feedback into record i and nothing else: the length, the question and
\* ideal answer of record i, every other record and every other row are
\* unchanged.
C8_EvaluateUpdatesInPlace ==
    \A q \in JsonIndexes, a \in UserAnswers, out \in FeedbackOutcomes :
        LET r == practice_evaluate_result(model, session, practice_session, q, a, out)
        IN  (HasActive(session, practice_session, "practice") /\ r.status = 200)
            => LET id == session["current_practice_session_id"]
                   old == Questions(practice_session, id)
                   new == Questions(r.table, id)
               IN  /\ Len(new) = Len(old)
                   /\ \A n \in 1..Len(old) : n # q.val + 1 => new[n] = old[n]
                   /\ new[q.val + 1] =
                          [question |-> old[q.val + 1]["question"],
                           answer |-> old[q.val + 1]["answer"],
                           user_answer |-> <<"ua">>,
                           ai_feedback |-> <<"fb">>]
                   /\ Len(r.table) = Len(practice_session)
                   /\ \A other \in 1..Len(practice_session) :
                          other # id => r.table[other] = practice_session[other]
                   /\ r.session = session

\* A practice session where a record after the first was evaluated and the
\* first was not
C8_OneOfSeveralEvaluated ==
    /\ HasActive(session, practice_session, "practice")
    /\ LET l == ActiveQuestions(session, practice_session, "practice")
       IN  /\ Len(l) >= 2
           /\ ~Has(l[1], "user_answer")
           /\ Has(l[2], "user_answer")
           /\ l[2]["user_answer"] = <<"ua">>
           /\ l[2]["ai_feedback"] = <<"fb">>

\* C9: a successful POST evaluate answers with the redirect to the results
\* if and only if, after its update, the number of records that carry a user
\* answer is MAX; otherwise it answers with the feedback text.
C9_RedirectIffAllAnswered ==
    \A q \in JsonIndexes, a \in UserAnswers, out \in FeedbackOutcomes :
        LET r == practice_evaluate_result(model, session, practice_session, q, a, out)
        IN  (HasActive(session, practice_session, "practice") /\ r.status = 200)
            => LET new == Questions(r.table, session["current_practice_session_id"])
               IN  /\ RedirectsToResults(r) <=> Answered(new) = MAX_PRACTICE_QUESTIONS
                   /\ ~RedirectsToResults(r) => Has(r.body, "feedback")

\* This step is a successful POST evaluate answered with the redirect to the
\* results
EvaluateRedirected ==
    \E q \in JsonIndexes, a \in UserAnswers, out \in FeedbackOutcomes :
        LET r == practice_evaluate_result(model, session, practice_session, q, a, out)
        IN  /\ r.status = 200
            /\ RedirectsToResults(r)
            /\ practice_session' = r.table
            /\ session' = r.session

C10_RedirectWhileFull ==
    \A q \in JsonIndexes, a \in UserAnswers, out \in FeedbackOutcomes :
        LET r == practice_evaluate_result(model, session, practice_session, q, a, out)
        IN  /\ (HasActive(session, practice_session, "practice") /\ r.status = 200)
                => (RedirectsToResults(r)
                       <=> Len(ActiveQuestions(session, practice_session, "practice"))
                               = MAX_PRACTICE_QUESTIONS)
            /\ ~HasActive(session, practice_session, "practice")
                => (r.status # 200 /\ r.calls = 0 /\ ~RedirectsToResults(r))

\* GET results, once rendered, leaves no practice session active
C10_ResultsClearPointer ==
    \A out \in GatewayOutcomes(OverallReplies) :
        LET r == practice_results_result(model, session, practice_session, out)
        IN  (Has(session, "user_id") /\ r.status = 200)
            => ~Has(r.session, "current_practice_session_id")

\* A row that is not the active practice session does not become it
PracticeRowNeverActiveAgain ==
    \A id \in 1..Len(practice_session) :
        ~(Has(session, "current_practice_session_id")
              /\ session["current_practice_session_id"] = id)
        => ~(Has(session', "current_practice_session_id")
                 /\ session'["current_practice_session_id"] = id)

Complete(questions) ==
    /\ Len(questions) = MAX_PRACTICE_QUESTIONS
    /\ \A n \in 1..Len(questions) :
           Has(questions[n], "answer") /\ Has(questions[n], "user_answer")

\* C11: GET results makes the aggregate gateway call and renders only when
\* the active practice session holds MAX records that each carry an ideal
\* answer and a user answer; in every other state with an active practice
\* session it redirects to the practice setup and does not raise.
C11_ResultsOnlyWhenComplete ==
    \A out \in GatewayOutcomes(OverallReplies) :
        HasActive(session, practice_session, "practice")
        => LET r == practice_results_result(model, session, practice_session, out)
               l == ActiveQuestions(session, practice_session, "practice")
           IN  IF Complete(l)
               THEN r.status = 200 /\ r.calls = 1
               ELSE /\ r.status = 302
                    /\ r.body = Redirect("practice_interview")
                    /\ r.calls = 0

\* What a rendered GET results leaves: no practice pointer and the table as
\* it was, so that GET results, GET question and POST evaluate made next
\* find no active practice session and reach neither gateway nor table
C12_RenderedEndsSession ==
    \A out \in GatewayOutcomes(OverallReplies) :
        LET r == practice_results_result(model, session, practice_session, out)
        IN  (Has(session, "user_id") /\ r.status = 200)
            => /\ HasActive(session, practice_session, "practice")
               /\ r.calls <= 1
               /\ ~Has(r.session, "current_practice_session_id")
               /\ r.table = practice_session
               /\ \A again \in GatewayOutcomes(OverallReplies) :
                      LET r2 == practice_results_result(model, r.session, r.table, again)
                      IN  /\ r2.status = 302
                          /\ r2.body = Redirect("practice_interview")
                          /\ r2.calls = 0
                          /\ r2.table = r.table
               /\ \A i \in Indexes :
                      LET r2 == practice_interview_question_result(model, r.session, r.table,
                                                                   i, NoCall)
                      IN  r2.status = 400 /\ r2.calls = 0 /\ r2.table = r.table
               /\ \A data \in EvaluateBodies :
                      LET r2 == practice_evaluate_result(model, r.session, r.table,
                                                         data.index, data.user_answer, NoCall)
                      IN  r2.status = 400 /\ r2.calls = 0 /\ r2.table = r.table

\* A practice row that is not the active one stays in the table as it is
C12_InactiveRowStays ==
    \A id \in 1..Len(practice_session) :
        (/\ practice_session' # practice_session
         /\ practice_session[id].session_type = "practice"
         /\ ~(Has(session, "current_practice_session_id")
                 /\ session["current_practice_session_id"] = id))
        => /\ id <= Len(practice_session')
           /\ practice_session'[id] = practice_session[id]

\* C12: the aggregate scoring of a practice session happens at most once: a
\* GET results that renders clears the practice pointer, every later GET
\* results, GET question and POST evaluate finds no active practice
\* session, the session is never the active one again, and its row stays in
\* the table with its list unchanged.
C12_ScoredAtMostOnce ==
    /\ []C12_RenderedEndsSession
    /\ [][PracticeRowNeverActiveAgain /\ C12_InactiveRowStays]_vars

\* A complete practice session that is no longer the active one, its user
\* still logged in: GET results now redirects to the setup
C12_AfterResults ==
    /\ Has(session, "user_id")
    /\ ~Has(session, "current_practice_session_id")
    /\ \E id \in 1..Len(practice_session) :
           /\ practice_session[id].session_type = "practice"
           /\ Complete(Questions(practice_session, id))
    /\ practice_results_result(model, session, practice_session, NoCall).status = 302

\* This step deletes no row and, in every row, removes no record and leaves
\* the question and the ideal answer of every stored record as they are
C13_AppendOnly ==
    practice_session' # practice_session
    => /\ Len(practice_session') >= Len(practice_session)
       /\ \A id \in 1..Len(practice_session) :
              LET old == Questions(practice_session, id)
                  new == Questions(practice_session', id)
              IN  /\ practice_session'[id].session_type = practice_session[id].session_type
                  /\ practice_session'[id].user_id = practice_session[id].user_id
                  /\ Len(new) >= Len(old)
                  /\ \A n \in 1..Len(old) :
                         /\ new[n]["question"] = old[n]["question"]
                         /\ new[n]["answer"] = old[n]["answer"]

\* C13: session rows are never deleted and a stored list only grows by
\* appending: over any sequence of requests its length never decreases and
\* the question and the ideal answer stored at an index never change.
C13_RowsAppendOnly == [][C13_AppendOnly]_vars

\* A list that grew to four records while two of them were evaluated
C13_GrownAndEvaluated ==
    \E id \in 1..Len(practice_session) :
        LET l == Questions(practice_session, id)
        IN  /\ Len(l) >= 4
            /\ Answered(l) >= 2
            /\ ~Has(l[Len(l)], "user_answer")

\* A request that waits for the gateway can always go on to write, however
\* the row changed meanwhile: what it writes is the list it read plus the
\* first pair of its reply, in place of whatever the row holds by then
C14_StaleWriteGoesThrough ==
    \A n \in 1..Len(pending) :
        pending[n].state = "called"
        => LET p == pending[n]
           IN  /\ Len(p.questions) = p.index
               /\ CanPersist(p, practice_session)
               /\ \A out \in QuestionOutcomes :
                      (out.kind = "ok" /\ parse_ai_response(Strip(out.text)) # <<>>)
                      => LET r == Resume(p, practice_session, out)
                             pair == parse_ai_response(Strip(out.text))[1]
                         IN  /\ r.status = 200
                             /\ r.calls = 1
                             /\ r.commits = 1
                             /\ Questions(r.table, p.id) =
                                    Append(p.questions,
                                           [question |-> pair["question"],
                                            answer |-> pair["answer"]])

\* Two requests that both wrote did so for the index they both read as the
\* next one
C14_BothWroteTheirIndex ==
    \A n \in 1..Len(pending) :
        pending[n].state = "stored"
        => /\ Len(pending[n].questions) = pending[n].index
           /\ pending[n].text # <<>>

\* C14: two GET question(k) requests for one session that overlap can both
\* read the stored length k, both ask the gateway for index k and both
\* append and write a record: no handler excludes it.
C14_DuplicateGeneration == C14_StaleWriteGoesThrough /\ C14_BothWroteTheirIndex

\* Two requests for the same index of the same session were both answered
\* with a generated question, a different one each, and both wrote
C14_TwoGeneratedSameIndex ==
    \E n, m \in 1..Len(pending) :
        /\ n # m
        /\ pending[n].state = "stored" /\ pending[m].state = "stored"
        /\ pending[n].id = pending[m].id
        /\ pending[n].index = pending[m].index
        /\ pending[n].questions = pending[m].questions
        /\ pending[n].text # pending[m].text
        /\ Len(Questions(practice_session, pending[n].id)) = pending[n].index + 1

\* The gateway call exceeds its deadline
TimedOut == [kind |-> "DeadlineExceeded", text |-> <<"detail">>]

\* The request answered with r left the table and the Flask session alone
LeavesState(r) == r.table = practice_session /\ r.session = session

\* C15: when the gateway call times out in question generation, in evaluate
\* or in the aggregate call of GET results, the stored list and the active
\* session pointer are what they were before the request, so that the same
\* request can be made again.
C15_TimeoutLeavesState ==
    /\ \A kind \in Kinds, i \in Indexes :
           LET r == QuestionRoute(kind, model, session, practice_session, i, TimedOut)
           IN  r.calls = 1 => LeavesState(r)
    /\ \A data \in EvaluateBodies :
           LET r == practice_evaluate_result(model, session, practice_session, data.index,
                                             data.user_answer, TimedOut)
           IN  r.calls = 1 => LeavesState(r)
    /\ LET r == practice_results_result(model, session, practice_session, TimedOut)
       IN  r.calls = 1 => LeavesState(r)

\* The tokens of a text
Tokens(text) == {text[n] : n \in 1..Len(text)}

\* What a request that reached the gateway answers when the call raised:
\* 504 for the deadline, 500 with str(e) in the message for an API error,
\* 500 with a message that holds no detail for anything else; the table is
\* left alone
RaisedAnswer(r, out) ==
    r.calls = 1
    => /\ DOMAIN r.body = {"error"}
       /\ r.table = practice_session
       /\ r.commits = 0
       /\ out.kind = "DeadlineExceeded"
           => /\ r.status = 504
              /\ "AI Service Error:" \notin Tokens(r.body["error"])
              /\ Tokens(out.text) \cap Tokens(r.body["error"]) = {}
       /\ out.kind = "GoogleAPIError"
           => /\ r.status = 500
              /\ "AI Service Error:" \in Tokens(r.body["error"])
              /\ Tokens(out.text) \subseteq Tokens(r.body["error"])
       /\ out.kind = "Exception"
           => /\ r.status = 500
              /\ "AI Service Error:" \notin Tokens(r.body["error"])
              /\ Tokens(out.text) \cap Tokens(r.body["error"]) = {}

RaisedOutcomes == {[kind |-> e, text |-> <<"detail">>] : e \in Raised}

\* C16: in GET question, coach and practice, and in POST evaluate, a gateway
\* timeout is answered 504, an API error of the provider 500 with the
\* provider's detail in the message, any other exception 500 with a generic
\* message; a timeout is never reported as a service error and the stored
\* list is unchanged in all three cases.
C16_RaisedOutcomeStatus ==
    \A out \in RaisedOutcomes :
        /\ \A kind \in Kinds, i \in Indexes :
               RaisedAnswer(QuestionRoute(kind, model, session, practice_session, i, out), out)
        /\ \A data \in EvaluateBodies :
               RaisedAnswer(practice_evaluate_result(model, session, practice_session,
                                                     data.index, data.user_answer, out), out)

\* A practice session where both a generation and an evaluation reach the
\* gateway, each answered 504 when the call times out
C16_BothRoutesTimeOut ==
    /\ HasActive(session, practice_session, "practice")
    /\ LET l == ActiveQuestions(session, practice_session, "practice")
       IN  /\ Len(l) \in 1..(MAX_PRACTICE_QUESTIONS - 1)
           /\ practice_interview_question_result(model, session, practice_session, Len(l),
                                                 TimedOut).status = 504
           /\ practice_evaluate_result(model, session, practice_session,
                  [type |-> "int", val |-> 0], <<" ", "ua", " ">>, TimedOut).status = 504

\* A response that is not a success carries {"error": message} and one of
\* the statuses 400, 404, 500, 504
ErrorShaped(r) ==
    r.status # 200
    => /\ DOMAIN r.body = {"error"}
       /\ r.status \in {400, 404, 500, 504}

\* C17: every non-success response of the JSON endpoints, GET question of
\* coach and practice and POST evaluate, to a logged-in user has the body
\* {"error": message} and a status among 400, 404, 500 and 504.
C17_ErrorBodyAndStatus ==
    Has(session, "user_id")
    => /\ \A kind \in Kinds, i \in Indexes, out \in QuestionOutcomes :
              ErrorShaped(QuestionRoute(kind, model, session, practice_session, i, out))
       /\ \A data \in EvaluateBodies, out \in FeedbackOutcomes :
              ErrorShaped(practice_evaluate_result(model, session, practice_session,
                                                   data.index, data.user_answer, out))

\* The gateway calls and the commits of a request
Costs(r) == [calls |-> r.calls, commits |-> r.commits]

\* POST /interview-coach, for every form and every outcome of the gateway
CoachSetups ==
    {interview_coach_result(model, session, practice_session, "POST", j, out) :
         j \in JobPositions, out \in QuestionOutcomes}

CoachSetupCosts == {Costs(r) : r \in CoachSetups}

\* Every other request of the application
OtherCosts ==
    {Costs(login_result(session, practice_session, u)) : u \in Users}
    \cup {Costs(logout_result(session, practice_session)),
          Costs(interview_coach_result(model, session, practice_session, "GET", <<>>, NoCall)),
          Costs(interview_question_display_result(session, practice_session))}
    \cup {Costs(QuestionRoute(kind, model, session, practice_session, i, out)) :
              kind \in Kinds, i \in Indexes, out \in QuestionOutcomes}
    \cup {Costs(practice_interview_result(model, session, practice_session, m, j)) :
              m \in {"GET", "POST"}, j \in JobPositions}
    \cup {Costs(practice_evaluate_result(model, session, practice_session,
                                         data.index, data.user_answer, out)) :
              data \in EvaluateBodies, out \in FeedbackOutcomes}
    \cup {Costs(practice_results_result(model, session, practice_session, out)) :
              out \in GatewayOutcomes(OverallReplies)}
    \cup {Costs(resume_optimizer_result(model, session, resume_optimization_result,
                                        m, t, d, out, now)) :
              m \in {"GET", "POST"}, t \in FormTexts, d \in FormTexts,
              out \in ResumeOutcomes, now \in Nows(resume_optimization_result)}
    \cup {Costs(resume_optimizer_results_result(session, resume_optimization_result, first)) :
              first \in 1..Len(resume_optimization_result)}

AtMostOneEach(c) == c.calls <= 1 /\ c.commits <= 1

\* C18 as stated: every HTTP request makes at most one gateway call, a
\* failed call never being retried within the request, and at most one
\* persistence write.
C18_OneCallOneWrite ==
    \A c \in CoachSetupCosts \cup OtherCosts : AtMostOneEach(c)

\* C18, as the code has it: every HTTP request makes at most one gateway call
\* and at most one persistence write, but for the coach setup POST whose
\* first question is stored: it writes twice, the new row before the call
\* and the row with its question after it.
C18_OneCallOneWriteButCoachSetup ==
    /\ \A c \in OtherCosts : AtMostOneEach(c)
    /\ \A r \in CoachSetups :
           /\ r.calls <= 1
           /\ r.commits <= 2
           /\ r.commits = 2
               <=> /\ r.body = Redirect("interview_question_display")
                   /\ Len(r.table) = Len(practice_session) + 1
                   /\ Len(Questions(r.table, Len(r.table))) = 1

\* A coach setup stored its first question and the user, still in that
\* session, can set up another one
C18_CoachSetupStored ==
    /\ model
    /\ HasActive(session, practice_session, "coach")
    /\ Len(ActiveQuestions(session, practice_session, "coach")) = 1
    /\ \E r \in CoachSetups : r.commits = 2

\* The answers of the routes when model is None
Unavailable(r) ==
    \/ r.body = ErrorPage(<<"AI client not initialized">>)
    \/ r.body = ErrorPage(<<"AI service not available">>)
    \/ r.body = ErrorPage(<<"AI service not available for resume optimization">>)
    \/ r.status = 500 /\ r.body = Error("AI service not available")
    \/ r.body = [page |-> "practice_results.html", overall |-> "AI service not available"]

\* With a model the request would have asked the gateway or written a row
Dependent(withModel) == withModel.calls = 1 \/ withModel.commits > 0

\* The request answered without a model: nothing raised, no call, no write,
\* the table as it was, and the service-unavailable answer where the request
\* depends on the model
Degrades(r, table, withModel) ==
    /\ r.body # Page("KeyError")
    /\ r.calls = 0
    /\ r.commits = 0
    /\ r.table = table
    /\ Dependent(withModel) => Unavailable(r)

\* C19: when the model client failed to initialise, every AI-dependent
\* operation (coach setup POST, practice setup, GET question, POST evaluate,
\* GET results, resume optimizer POST) ends with a fixed service-unavailable
\* outcome without raising, makes no gateway call, and creates or changes no
\* session row and no resume-result row.
C19_UnavailableWithoutModel ==
    ~model
    => /\ \A j \in JobPositions :
              /\ Degrades(interview_coach_result(FALSE, session, practice_session,
                                                 "POST", j, NoCall),
                          practice_session,
                          interview_coach_result(TRUE, session, practice_session,
                                                 "POST", j, NoCall))
              /\ \A m \in {"GET", "POST"} :
                     Degrades(practice_interview_result(FALSE, session, practice_session, m, j),
                              practice_session,
                              practice_interview_result(TRUE, session, practice_session, m, j))
       /\ \A kind \in Kinds, i \in Indexes :
              Degrades(QuestionRoute(kind, FALSE, session, practice_session, i, NoCall),
                       practice_session,
                       QuestionRoute(kind, TRUE, session, practice_session, i, NoCall))
       /\ \A data \in EvaluateBodies :
              Degrades(practice_evaluate_result(FALSE, session, practice_session,
                                                data.index, data.user_answer, NoCall),
                       practice_session,
                       practice_evaluate_result(TRUE, session, practice_session,
                                                data.index, data.user_answer, NoCall))
       /\ Degrades(practice_results_result(FALSE, session, practice_session, NoCall),
                   practice_session,
                   practice_results_result(TRUE, session, practice_session, NoCall))
       /\ \A t \in FormTexts, d \in FormTexts :
              Degrades(resume_optimizer_result(FALSE, session, resume_optimization_result,
                                               "POST", t, d, NoCall, 1),
                       resume_optimization_result,
                       resume_optimizer_result(TRUE, session, resume_optimization_result,
                                               "POST", t, d, NoCall, 1))

\* The server came up without a model while a practice session with
\* questions to generate and to evaluate is active: both requests, and the
\* two setups, get the service-unavailable answer
C19_RestartedWithoutModel ==
    /\ ~model
    /\ HasActive(session, practice_session, "practice")
    /\ LET l == ActiveQuestions(session, practice_session, "practice")
       IN  /\ Len(l) \in 1..(MAX_PRACTICE_QUESTIONS - 1)
           /\ Unavailable(practice_interview_question_result(model, session, practice_session,
                                                             Len(l), NoCall))
           /\ Unavailable(practice_evaluate_result(model, session, practice_session,
                              [type |-> "int", val |-> 0], <<" ", "ua", " ">>, NoCall))
    /\ Unavailable(practice_interview_result(model, session, practice_session, "POST", <<"dev">>))
    /\ Unavailable(interview_coach_result(model, session, practice_session, "POST", <<"dev">>,
                                          NoCall))

\* The session cookie with the pointer of the mode kind at row id
Pointing(sess, kind, id) == Put(sess, PointerKey(kind), id)

\* The rows of a type
RowsOfType(table, session_type) ==
    {id \in 1..Len(table) : table[id].session_type = session_type}

\* The request was turned away: no call, nothing written, cookie untouched
Refused(r, sess) ==
    /\ r.calls = 0
    /\ r.commits = 0
    /\ r.table = practice_session
    /\ r.session = sess
    /\ r.status # 200

\* C20: evaluate and results never apply to a coach session: no record of a
\* coach-type session ever carries a user answer or feedback; POST evaluate
\* and GET results act only on a row of type practice, and coach GET question
\* acts only on a row of type coach, whichever row the pointer names.
C20_ModesKeptApart ==
    /\ \A id \in RowsOfType(practice_session, "coach") :
           \A n \in 1..Len(Questions(practice_session, id)) :
               DOMAIN Questions(practice_session, id)[n] = {"question", "answer"}
    /\ \A data \in EvaluateBodies, out \in FeedbackOutcomes :
           LET r == practice_evaluate_result(model, session, practice_session,
                                             data.index, data.user_answer, out)
           IN  r.calls > 0 \/ r.table # practice_session
                   => HasActive(session, practice_session, "practice")
    /\ LET r == practice_results_result(model, session, practice_session, TimedOut)
       IN  r.calls > 0 \/ r.status = 200 => HasActive(session, practice_session, "practice")
    /\ \A i \in Indexes, out \in QuestionOutcomes :
           LET r == get_question_result(model, session, practice_session, i, out)
           IN  r.calls > 0 \/ r.status = 200 => HasActive(session, practice_session, "coach")
    /\ Has(session, "user_id")
       => /\ \A id \in RowsOfType(practice_session, "coach") :
                 LET sess == Pointing(session, "practice", id)
                 IN  /\ \A data \in EvaluateBodies, out \in FeedbackOutcomes :
                            Refused(practice_evaluate_result(model, sess, practice_session,
                                        data.index, data.user_answer, out), sess)
                     /\ Refused(practice_results_result(model, sess, practice_session,
                                                        TimedOut), sess)
          /\ \A id \in RowsOfType(practice_session, "practice") :
                 LET sess == Pointing(session, "coach", id)
                 IN  \A i \in Indexes, out \in QuestionOutcomes :
                         Refused(get_question_result(model, sess, practice_session, i, out),
                                 sess)

\* A coach session with a stored question that POST evaluate, were the
\* practice pointer at its row, would be asked to evaluate
C20_CoachRowWithQuestion ==
    /\ model
    /\ HasActive(session, practice_session, "coach")
    /\ Len(ActiveQuestions(session, practice_session, "coach")) >= 1
    /\ practice_evaluate_result(model,
           Pointing(session, "practice", session["current_coach_session_id"]),
           practice_session, [type |-> "int", val |-> 0], <<" ", "ua", " ">>,
           TimedOut).status = 400

\* The first e records of the list are evaluated and no other
EvaluatedUpTo(questions, e) ==
    \A n \in 1..Len(questions) :
        /\ Has(questions[n], "user_answer") <=> n <= e
        /\ Has(questions[n], "ai_feedback") <=> n <= e

\* The replies of a gateway that succeeds: a question reply a pair is parsed
\* from, a feedback reply
ParsedQuestionOutcomes ==
    {out \in QuestionOutcomes : out.kind = "ok" /\ parse_ai_response(Strip(out.text)) # <<>>}

OkOutcomes(replies) == {[kind |-> "ok", text |-> t] : t \in replies}

\* GET question(k) in the flow state with k records, all evaluated: the
\* question is generated and stored as record k, not yet evaluated
FlowGenerates(l) ==
    \A out \in ParsedQuestionOutcomes :
        LET k == Len(l)
            r == practice_interview_question_result(model, session, practice_session, k, out)
            new == ActiveQuestions(r.session, r.table, "practice")
        IN  /\ r.status = 200 /\ r.calls = 1
            /\ Len(new) = k + 1
            /\ SubSeq(new, 1, k) = l
            /\ EvaluatedUpTo(new, k)
            /\ r.body["question"] = new[k + 1]["question"]

\* POST evaluate(k - 1) in the flow state with k records, the last one not
\* evaluated: feedback before the fifth, the redirect at the fifth, and the
\* record gains the user's answer and the feedback
FlowEvaluates(l) ==
    \A out \in OkOutcomes(FeedbackReplies) :
        LET k == Len(l)
            r == practice_evaluate_result(model, session, practice_session,
                                          [type |-> "int", val |-> k - 1], <<" ", "ua", " ">>, out)
            new == ActiveQuestions(r.session, r.table, "practice")
        IN  /\ r.status = 200 /\ r.calls = 1
            /\ IF k < MAX_PRACTICE_QUESTIONS
               THEN Has(r.body, "feedback") /\ ~RedirectsToResults(r)
               ELSE RedirectsToResults(r)
            /\ Len(new) = k
            /\ EvaluatedUpTo(new, k)
            /\ new[k]["user_answer"] = <<"ua">>
            /\ new[k]["ai_feedback"] = Strip(out.text)
            /\ new[k]["question"] = l[k]["question"]
            /\ SubSeq(new, 1, k - 1) = SubSeq(l, 1, k - 1)

\* GET results at the end of the flow renders the results page
FlowRenders ==
    \A out \in OkOutcomes(OverallReplies) :
        LET r == practice_results_result(model, session, practice_session, out)
        IN  r.status = 200 /\ r.calls = 1 /\ r.body["page"] = "practice_results.html"

\* C21: in the end-to-end practice flow (start session; for i = 0..4 in
\* order GET question(i) generates, then POST evaluate(i, non-empty answer)),
\* with the gateway succeeding each time, evaluations 0..3 answer with
\* feedback, the fifth answers with the redirect to the results, each record
\* i gains user_answer and ai_feedback, and the following GET results
\* renders.  Stated over the states of the flow: the setup starts it with an
\* empty list, and each request of the flow leads to the next state of it.
C21_PracticeFlow ==
    model /\ Has(session, "user_id")
    => /\ LET r == practice_interview_result(model, session, practice_session,
                                             "POST", <<"dev">>)
          IN  /\ HasActive(r.session, r.table, "practice")
              /\ ActiveQuestions(r.session, r.table, "practice") = <<>>
       /\ HasActive(session, practice_session, "practice")
          => LET l == ActiveQuestions(session, practice_session, "practice")
                 k == Len(l)
             IN  /\ EvaluatedUpTo(l, k) /\ k < MAX_PRACTICE_QUESTIONS => FlowGenerates(l)
                 /\ k >= 1 /\ EvaluatedUpTo(l, k - 1) => FlowEvaluates(l)
                 /\ EvaluatedUpTo(l, k) /\ k = MAX_PRACTICE_QUESTIONS => FlowRenders

\* The end of the flow: five records, each evaluated, and the results render
C21_FlowCompleted ==
    /\ model
    /\ HasActive(session, practice_session, "practice")
    /\ LET l == ActiveQuestions(session, practice_session, "practice")
       IN  /\ Len(l) = MAX_PRACTICE_QUESTIONS
           /\ EvaluatedUpTo(l, MAX_PRACTICE_QUESTIONS)
    /\ FlowRenders

\* The cookies whose pointer of the mode kind names no row of that kind: the
\* pointer absent, at a row that is missing, at a row of the other type
Astray(sess, table, kind) ==
    {Pop(sess, PointerKey(kind)), Pointing(sess, kind, Len(table) + 1)}
        \cup {Pointing(sess, kind, id) : id \in RowsOfType(table, CHOOSE o \in Kinds : o # kind)}

\* The response sends the user to the setup page: an HTTP redirect, or the
\* JSON body that names the page to go to
SendsTo(r, page) == Has(r.body, "redirect") /\ r.body["redirect"] = page

\* No gateway call, nothing stored, and the user sent to the setup
TurnedToSetup(r, page) ==
    /\ r.calls = 0
    /\ r.commits = 0
    /\ r.table = practice_session
    /\ SendsTo(r, page)

\* C22: when the active session pointer is absent, or names a row that is
\* missing or of the wrong type, GET question, POST evaluate and GET results
\* make no gateway call, change no stored state, and send the user to the
\* corresponding setup flow (a redirect) rather than answering from another
\* session.
C22_NoSessionRedirectsToSetup ==
    Has(session, "user_id")
    => /\ \A sess \in Astray(session, practice_session, "practice") :
              /\ \A data \in EvaluateBodies :
                     TurnedToSetup(practice_evaluate_result(model, sess, practice_session,
                                       data.index, data.user_answer, TimedOut),
                                   "practice_interview")
              /\ TurnedToSetup(practice_results_result(model, sess, practice_session, TimedOut),
                               "practice_interview")
              /\ \A i \in Indexes :
                     TurnedToSetup(practice_interview_question_result(model, sess,
                                       practice_session, i, TimedOut),
                                   "practice_interview")
       /\ \A sess \in Astray(session, practice_session, "coach") :
              \A i \in Indexes :
                  TurnedToSetup(get_question_result(model, sess, practice_session, i, TimedOut),
                                "interview_coach")

\* POST of the setup of a mode
Setup(kind, mdl, sess, table, job_position, out) ==
    IF kind = "coach"
    THEN interview_coach_result(mdl, sess, table, "POST", job_position, out)
    ELSE practice_interview_result(mdl, sess, table, "POST", job_position)

\* The request added one row of the mode, owned by the logged-in user and
\* holding the list questions, and left the pointer of the mode at it
CreatedRow(r, kind, questions) ==
    LET id == Len(practice_session) + 1
    IN  /\ Len(r.table) = id
        /\ SubSeq(r.table, 1, id - 1) = practice_session
        /\ r.table[id].session_type = kind
        /\ r.table[id].user_id = session["user_id"]
        /\ Questions(r.table, id) = questions
        /\ r.session = Put(session, PointerKey(kind), id)

CreatedNothing(r) == r.table = practice_session /\ r.session = session

\* C23 as stated: submitting coach or practice setup with a non-empty job
\* position creates exactly one new session row of that kind, owned by the
\* logged-in user, with an empty question list, and points the matching
\* active-session pointer at it; an empty job position creates no row and
\* leaves both pointers unchanged.
C23_SetupCreatesEmptyRow ==
    Has(session, "user_id")
    => \A kind \in Kinds, j \in JobPositions, out \in QuestionOutcomes :
           LET r == Setup(kind, model, session, practice_session, j, out)
           IN  IF j = <<>> THEN CreatedNothing(r) ELSE CreatedRow(r, kind, <<>>)

\* C23, as the code has it: with the model client initialised, a setup with a
\* non-empty job position creates exactly one row of that kind, owned by the
\* logged-in user, and points the matching pointer at it; the row is created
\* with an empty list, which the coach setup then fills with the first pair
\* parsed from the reply when there is one.  An empty job position, or a
\* model client that is None, creates no row and leaves both pointers
\* unchanged.
C23_SetupCreatesOneRow ==
    Has(session, "user_id")
    => \A kind \in Kinds, j \in JobPositions, out \in QuestionOutcomes :
           LET r == Setup(kind, model, session, practice_session, j, out)
               parsed_qa == parse_ai_response(Strip(out.text))
           IN  IF j = <<>> \/ ~model THEN CreatedNothing(r)
               ELSE IF kind = "coach" /\ out.kind = "ok" /\ parsed_qa # <<>>
               THEN CreatedRow(r, kind, <<parsed_qa[1]>>)
               ELSE CreatedRow(r, kind, <<>>)

\* A setup has created a row that is still empty, and the pointer of its mode
\* is at it
C23_EmptyRowCreated ==
    /\ model
    /\ \E kind \in Kinds :
           /\ HasActive(session, practice_session, kind)
           /\ ActiveQuestions(session, practice_session, kind) = <<>>
           /\ practice_session[session[PointerKey(kind)]].user_id = session["user_id"]

\* What the reply holds: a score behind one of the two score labels, a line
\* that is not blank in the improvements section, the label of the
\* optimized resume
ScoreExtracted(text) ==
    \/ FindScore(text, ScoreHeader, Percents, 1) <= Len(text)
    \/ FindScore(text, PlainScoreHeader, Percents \cup Digits, 1) <= Len(text)

ImprovementsExtracted(text) ==
    /\ HasSection(text, ImprovementsHeader)
    /\ \E tok \in Tokens(Section(text, ImprovementsHeader, {OptimizedHeader})) : ~IsBlank(tok)

OptimizedExtracted(text) == HasSection(text, OptimizedHeader)

AnyExtracted(text) ==
    ScoreExtracted(text) \/ ImprovementsExtracted(text) \/ OptimizedExtracted(text)

\* The request added exactly one row, of the logged-in user, behind the rows
\* there were
OneRowAdded(r) ==
    /\ Len(r.table) = Len(resume_optimization_result) + 1
    /\ SubSeq(r.table, 1, Len(resume_optimization_result)) = resume_optimization_result
    /\ r.table[Len(r.table)].user_id = session["user_id"]
    /\ r.commits = 1

\* Every resume optimization request that asked the gateway adds one row
\* when one of the three parts was extracted from the reply, and none when
\* none was or when the call failed; the results page writes nothing
C24_RowPerExtractedReply ==
    /\ \A t \in FormTexts, d \in FormTexts, out \in ResumeOutcomes,
          now \in Nows(resume_optimization_result) :
           LET r == resume_optimizer_result(model, session, resume_optimization_result,
                                            "POST", t, d, out, now)
           IN  IF r.calls = 1 /\ out.kind = "ok" /\ AnyExtracted(out.text)
               THEN OneRowAdded(r)
               ELSE r.table = resume_optimization_result /\ r.commits = 0
    /\ \A first \in 1..Len(resume_optimization_result) :
           resume_optimizer_results_result(session, resume_optimization_result, first).table
               = resume_optimization_result

\* This step leaves every row of the table as it was
C24_RowsKept ==
    /\ Len(resume_optimization_result') >= Len(resume_optimization_result)
    /\ SubSeq(resume_optimization_result', 1, Len(resume_optimization_result))
           = resume_optimization_result

\* C24: a resume optimization request creates exactly one ResumeResult row
\* when at least one of match score, improvements or optimized resume was
\* extracted from the reply, and creates no row when none of the three was
\* extracted or when the gateway call failed; no operation modifies or
\* deletes an existing ResumeResult row.
C24_ResumeRows == []C24_RowPerExtractedReply /\ [][C24_RowsKept]_vars

\* A second row was stored from a reply that held the optimized resume and
\* no score, behind the first one
C24_PartialReplyStored ==
    /\ Len(resume_optimization_result) = 2
    /\ resume_optimization_result[2].match_score = <<"N/A">>
    /\ resume_optimization_result[2].optimized_resume_text = <<"res">>

\* The row created last among the rows of the user: ids grow with creation
MostRecentOf(results, user_id) ==
    CHOOSE id \in ResultsOf(results, user_id) :
        \A other \in ResultsOf(results, user_id) : other <= id

\* C25: GET resume results surfaces the most recently created ResumeResult
\* of the logged-in user, never an older one of that user and never another
\* user's, and redirects to the optimizer setup when the user has none.
C25_ShowsMostRecent ==
    Has(session, "user_id")
    => LET me == session["user_id"]
           rows == FirstByTimestampDesc(resume_optimization_result, me)
       IN  IF ResultsOf(resume_optimization_result, me) = {}
           THEN resume_optimizer_results_result(session, resume_optimization_result, 0).body
                    = Redirect("resume_optimizer")
           ELSE \A first \in rows :
                    LET r == resume_optimizer_results_result(session,
                                 resume_optimization_result, first)
                    IN  /\ r.status = 200
                        /\ r.body["results"].user_id = me
                        /\ r.body["id"] = MostRecentOf(resume_optimization_result, me)

\* The usernames of the stored accounts are pairwise distinct
DistinctUsernames(users) ==
    \A a \in 1..Len(users), b \in 1..Len(users) :
        users[a].username = users[b].username => a = b

\* What the form is refused for: a field not sent or blank, a confirmation
\* that differs, a password of fewer than six characters, a username that an
\* account has
FieldMissing(form) ==
    \E k \in {"username", "password", "confirm_password"} :
        ~Has(form, k) \/ Strip(form[k]) = <<>>

Refusable(form, users) ==
    \/ FieldMissing(form)
    \/ Strip(form["password"]) # Strip(form["confirm_password"])
    \/ Len(Strip(form["password"])) < 6
    \/ \E id \in 1..Len(users) : users[id].username = Strip(form["username"])

\* The usernames are distinct, and a registration that is to be refused
\* creates no account while any other, sent by a visitor who is not logged
\* in, creates the account of the form
C26_RegistrationChecked ==
    /\ DistinctUsernames(user)
    /\ \A form \in RegisterForms :
           LET r == register_result(session, user, "POST", form)
           IN  IF Refusable(form, user) \/ Has(session, "user_id")
               THEN r.table = user /\ r.commits = 0
               ELSE r.table = Append(user, NewUser(form))

\* This step leaves every account as it was
C26_AccountsKept ==
    /\ Len(user') >= Len(user)
    /\ SubSeq(user', 1, Len(user)) = user

\* C26: after any sequence of registrations the usernames of stored accounts
\* are pairwise distinct; a registration with a missing field, a mismatched
\* confirmation, a password shorter than 6 characters or an already stored
\* username creates no account; no operation modifies or deletes an existing
\* account.
C26_Accounts == []C26_RegistrationChecked /\ [][C26_AccountsKept]_vars

\* Two registrations of one username overlapped: both passed the query, one
\* stored its account and the commit of the other was refused
C26_SecondCommitRefused ==
    /\ Len(user) > Len(RegisteredUsers)
    /\ \E n \in 1..Len(pending) :
           /\ pending[n].state = "failed"
           /\ \E id \in 1..Len(user) : user[id].username = pending[n].row.username

(***************************************************************************)
(* C27: a well-formed reply parses to its one trimmed pair                 *)
(***************************************************************************)
ParsedBy(function) == parsed.function = function

\* C27: parse_ai_response applied to a text 'Question: A Answer: B', with any
\* blanks before and after A and B, where A and B are non-empty and hold
\* neither label, returns exactly one pair, whose question is A and whose
\* answer is B, both without the blanks around them.
C27_WellFormedParsesToOnePair ==
    ParsedBy("parse_ai_response") =>
        \A A \in QuestionTexts, B \in AnswerTexts :
            \A p1 \in Pads, p2 \in Pads, p3 \in Pads, p4 \in Pads :
                response_text = WellFormed(A, B, p1, p2, p3, p4)
                    => parsed.value = <<[question |-> A, answer |-> B]>>

\* A well-formed reply with blanks on every side of a two-word question was parsed
C27_PaddedReplyParsed ==
    /\ ParsedBy("parse_ai_response")
    /\ response_text = WellFormed(<<"q", " ", "r">>, <<"a">>,
                                  <<" ", " ">>, <<" ">>, <<" ">>, <<" ", " ">>)
    /\ parsed.value = <<[question |-> <<"q", " ", "r">>, answer |-> <<"a">>]>>

(***************************************************************************)
(* C28: no pair with an empty question or answer                           *)
(***************************************************************************)
RECURSIVE Count(_, _)
Count(text, tok) ==
    IF text = <<>> THEN 0
    ELSE (IF Head(text) = tok THEN 1 ELSE 0) + Count(Tail(text), tok)

Trimmed(text) == text # <<>> /\ ~IsSpace(Head(text)) /\ ~IsSpace(text[Len(text)])

\* question and answer, each a non-empty text with no blank at either end
IsPair(pair) ==
    /\ DOMAIN pair = {"question", "answer"}
    /\ Trimmed(pair.question)
    /\ Trimmed(pair.answer)

\* 'Question: Answer: B' and 'Question: A Answer:', with blanks only where
\* the question or the answer should be
EmptyQuestionOrAnswer(text) ==
    \E p1 \in Pads, p2 \in Pads, word \in {<<"q">>, <<"a">>} :
        \/ text = <<"Question:">> \o p1 \o <<"Answer:">> \o p2 \o word
        \/ text = <<"Question:">> \o p1 \o word \o <<"Answer:">> \o p2

\* C28: parse_ai_response returns, for every text, a list of pairs, and no
\* pair of it has an empty question or an empty answer; a text without a
\* 'Question:' label or without an 'Answer:' label gives no pair, a block
\* whose question or answer is empty after trimming gives no pair, and next
\* to a well-formed block a block that lacks a label or has an empty
\* question or answer adds no pair to the one of the well-formed block.
C28_NoEmptyPair ==
    ParsedBy("parse_ai_response") =>
        /\ \A n \in 1..Len(parsed.value) : IsPair(parsed.value[n])
        /\ Len(parsed.value) <= Count(response_text, "Question:")
        /\ Len(parsed.value) <= Count(response_text, "Answer:")
        /\ EmptyQuestionOrAnswer(response_text) => parsed.value = <<>>
        /\ response_text \in TwoBlockTexts => Len(parsed.value) = 1

\* An empty question before a well-formed block: only the latter gave a pair
C28_EmptyBlockSkipped ==
    /\ ParsedBy("parse_ai_response")
    /\ response_text = <<"Question:", " ", "Answer:", " ", "a", " ">> \o ValidBlock
    /\ parsed.value = <<[question |-> <<"q">>, answer |-> <<"a">>]>>

(***************************************************************************)
(* C29: the defaults of the overall assessment                             *)
(***************************************************************************)
HasLabel(text, labels) == \E n \in 1..Len(text) : text[n] \in labels

NotAvailable == <<"N/A">>

\* 'N/A' for the hiring percentage and for the areas for improvement when
\* their label is not in the text
NotAvailableWithoutLabel ==
    /\ ~HasLabel(response_text, HiringLabels)
           => parsed.value.hiring_percentage = NotAvailable
    /\ ~HasLabel(response_text, AreasLabels)
           => parsed.value.areas_for_improvement = NotAvailable

\* With no label at all: no percentage, and the whole trimmed text for message
DefaultsWithoutAnyLabel ==
    ~HasLabel(response_text, HiringLabels \cup AreasLabels \cup MessageLabels)
        => /\ parsed.value.hiring_percentage = NotAvailable
           /\ parsed.value.overall_message = StripBlank(response_text)

\* C29 as stated: parse_overall_results returns 'N/A' for every field whose
\* label is not found, and its message is the full trimmed input only when
\* the text holds no labelled section at all; with no recognisable label
\* the hiring percentage is 'N/A' and the message the full trimmed input.
C29_MessageDefaultsOnlyWithoutLabels ==
    ParsedBy("parse_overall_results") =>
        /\ NotAvailableWithoutLabel
        /\ parsed.value.overall_message = StripBlank(response_text)
               => ~HasLabel(response_text, HiringLabels \cup AreasLabels \cup MessageLabels)
        /\ DefaultsWithoutAnyLabel

\* C29: parse_overall_results returns 'N/A' for the hiring percentage and
\* for the areas for improvement when their label is not found, and its
\* message is the full trimmed input exactly when neither 'Overall Message:'
\* nor 'Overall Feedback:' is found, whatever other labelled sections the
\* text holds; with no recognisable label the hiring percentage is 'N/A'
\* and the message the full trimmed input.
C29_MessageDefaultsWithoutItsLabel ==
    ParsedBy("parse_overall_results") =>
        /\ NotAvailableWithoutLabel
        /\ parsed.value.overall_message = StripBlank(response_text)
               <=> ~HasLabel(response_text, MessageLabels)
        /\ DefaultsWithoutAnyLabel

\* A text with a hiring percentage and no message label was parsed: the
\* percentage was extracted and the message is the whole text
C29_PercentageInMessage ==
    /\ ParsedBy("parse_overall_results")
    /\ response_text = <<" ", "Hiring Percentage:", " ", "82%">>
    /\ parsed.value = [hiring_percentage |-> <<"82%">>,
                       areas_for_improvement |-> NotAvailable,
                       overall_message |-> <<"Hiring Percentage:", " ", "82%">>]

(***************************************************************************)
(* C30: the match score with and without its percent sign                  *)
(***************************************************************************)
\* A Match Score label, bold or plain, stands in the text with bare digits
\* as the next token that is not blank
DigitsAfterScoreLabel(text) ==
    \E n \in 1..Len(text) :
        LET rest == LStripBlank(SubSeq(text, n + 1, Len(text)))
        IN  /\ text[n] \in {ScoreHeader, PlainScoreHeader}
            /\ rest # <<>>
            /\ Head(rest) \in Digits

\* C30: parse_resume_optimization_response yields the match score '82%' for
\* '**Match Score:** 82%', and whenever a Match Score label, bold or plain,
\* is followed by bare digits without a percent sign it yields the digits
\* with '%' behind them, not 'N/A'.
C30_ScoreKeepsPercent ==
    ParsedBy("parse_resume_optimization_response") =>
        /\ response_text = <<ScoreHeader, " ", "82%">>
               => parsed.value.match_score = <<"82%">>
        /\ DigitsAfterScoreLabel(response_text)
               => parsed.value.match_score = <<"82%">>

(***************************************************************************)
(* C31: a section ends where the next one begins                           *)
(***************************************************************************)
\* The tokens of the sections after the n-th: their labels, bold, with the
\* bolding removed or with the first asterisk taken for a bullet, and the
\* words of their bodies
LaterTokens(n) ==
    UNION {{SectionHeaders[m], Unbold(SectionHeaders[m]), HalfBold(SectionHeaders[m])}
               \cup ({SectionBodies[m][i] : i \in 1..Len(SectionBodies[m])} \ {" ", "-"})
           : m \in (n + 1)..Len(SectionHeaders)}

Holds(text, tokens) == \E i \in 1..Len(text) : text[i] \in tokens

\* C31: parse_resume_optimization_response applied to a reply whose bold
\* section labels stand in the fixed order, any subset of them absent, ends
\* each extracted section at the next known label or at the end of the
\* text: no extracted field holds the label or the body of a later section.
C31_SectionEndsAtNextLabel ==
    (ParsedBy("parse_resume_optimization_response") /\ response_text \in SectionReplies) =>
        /\ ~Holds(parsed.value.match_score, LaterTokens(1))
        /\ ~Holds(parsed.value.summary_message, LaterTokens(2))
        /\ \A n \in 1..Len(parsed.value.original_improvements) :
               ~Holds(parsed.value.original_improvements[n], LaterTokens(3))
        /\ ~Holds(parsed.value.optimized_resume_text, LaterTokens(4))

(***************************************************************************)
(* C32: a reply without a valid pair stores nothing                        *)
(***************************************************************************)
\* The replies of the gateway that hold no valid question/answer pair
MalformedOutcomes ==
    {out \in QuestionOutcomes : out.kind = "ok" /\ parse_ai_response(Strip(out.text)) = <<>>}

\* C32: GET question(k) on a list of length k < MAX, answered by the gateway
\* with a reply that holds no valid pair, answers 500 after its one call,
\* appends nothing and leaves the stored length k, in both modes; the same
\* request made afterwards calls the gateway for index k again.
C32_MalformedReplyStoresNothing ==
    \A kind \in Kinds, out \in MalformedOutcomes :
        (/\ HasActive(session, practice_session, kind)
         /\ Len(ActiveQuestions(session, practice_session, kind)) < MaxOf(kind))
        => LET k == Len(ActiveQuestions(session, practice_session, kind))
               r == QuestionRoute(kind, model, session, practice_session, k, out)
           IN  /\ r.status = 500
               /\ "error" \in DOMAIN r.body
               /\ r.calls = 1
               /\ r.commits = 0
               /\ r.table = practice_session
               /\ r.session = session
               /\ Len(ActiveQuestions(r.session, r.table, kind)) = k
               /\ \A again \in QuestionOutcomes :
                      LET r2 == QuestionRoute(kind, model, r.session, r.table, k, again)
                      IN  /\ r2.calls = 1
                          /\ ((again \in QuestionOutcomes \ MalformedOutcomes
                                  /\ again.kind = "ok")
                                 => Len(ActiveQuestions(r2.session, r2.table, kind)) = k + 1)

\* A practice session with stored questions and room for more, where the
\* reply without an answer label is answered 500 and the list is kept
C32_MalformedReplyRefused ==
    /\ HasActive(session, practice_session, "practice")
    /\ LET l == ActiveQuestions(session, practice_session, "practice")
           r == practice_interview_question_result(
                    model, session, practice_session, Len(l),
                    [kind |-> "ok", text |-> <<"Question:", "q1">>])
       IN  /\ Len(l) >= 2
           /\ Len(l) < MAX_PRACTICE_QUESTIONS
           /\ r.status = 500
           /\ r.table = practice_session

(***************************************************************************)
(* C33: coach setup stores its row before it asks for the first question   *)
(***************************************************************************)
\* C33: coach setup with a job position stores a new coach row of the user
\* and sets the coach pointer to it whatever the gateway answers: with a
\* reply that holds a pair the row has exactly one question, the first
\* pair; with a raised error or a reply without a pair the row is stored
\* with no question and the pointer is set, and a following GET question(0)
\* calls the gateway and, answered with a pair, stores the first question.
C33_CoachSetupKeepsRow ==
    \A j \in JobPositions \ {<<>>}, out \in QuestionOutcomes :
        (Has(session, "user_id") /\ model)
        => LET r == interview_coach_result(model, session, practice_session, "POST", j, out)
               id == Len(practice_session) + 1
               parsed_qa == parse_ai_response(Strip(out.text))
           IN  /\ r.calls = 1
               /\ Len(r.table) = id
               /\ SubSeq(r.table, 1, id - 1) = practice_session
               /\ r.table[id].session_type = "coach"
               /\ r.table[id].user_id = session["user_id"]
               /\ Has(r.session, "current_coach_session_id")
               /\ r.session["current_coach_session_id"] = id
               /\ IF out.kind = "ok" /\ parsed_qa # <<>>
                  THEN /\ r.status = 302
                       /\ Questions(r.table, id) = <<parsed_qa[1]>>
                  ELSE /\ r.body["page"] = "error.html"
                       /\ Questions(r.table, id) = <<>>
                       /\ \A first \in QuestionOutcomes \ MalformedOutcomes :
                              LET r2 == get_question_result(model, r.session, r.table, 0, first)
                              IN  /\ r2.calls = 1
                                  /\ first.kind = "ok"
                                         => /\ r2.status = 200
                                            /\ Len(Questions(r2.table, id)) = 1

\* A coach setup failed: its row is stored without a question, the pointer
\* names it, and GET question(0) answered with a pair stores the first one
C33_EmptyCoachRowKept ==
    /\ HasActive(session, practice_session, "coach")
    /\ ActiveQuestions(session, practice_session, "coach") = <<>>
    /\ LET r2 == get_question_result(model, session, practice_session, 0,
                                     [kind |-> "ok",
                                      text |-> <<"Question:", " ", "q1", " ",
                                                 "Answer:", " ", "a1", " ">>])
       IN  Len(ActiveQuestions(r2.session, r2.table, "coach")) = 1

(***************************************************************************)
(* C34: overlapping writers keep the list within the maximum               *)
(***************************************************************************)
\* The maximum of the list the request p works on
MaxFor(p) == IF p.kind = "coach" THEN MAX_INITIAL_QUESTIONS ELSE MAX_PRACTICE_QUESTIONS

\* What the request p in flight leaves when the gateway gives out
Finish(p, table, out) ==
    IF p.kind = "evaluate" THEN ResumeEvaluate(p, table, out) ELSE Resume(p, table, out)

OutcomesFor(p) == IF p.kind = "evaluate" THEN FeedbackOutcomes ELSE QuestionOutcomes

\* Every stored list has at most the maximum of its mode
ListsWithinMax ==
    \A id \in 1..Len(practice_session) :
        Len(Questions(practice_session, id)) <= MaxOf(practice_session[id].session_type)

\* Whatever the gateway answers, a request in flight writes the list it
\* read with at most one record more, which is at most the maximum, and it
\* writes no other row
WritersWithinMax ==
    \A n \in 1..Len(pending) :
        pending[n].state = "called" =>
            \A out \in OutcomesFor(pending[n]) :
                LET p == pending[n]
                    r == Finish(p, practice_session, out)
                    written == Questions(r.table, p.id)
                IN  /\ Len(written) <= Len(p.questions) + 1
                    /\ Len(written) <= MaxFor(p)
                    /\ \A other \in 1..Len(practice_session) :
                           other # p.id => r.table[other] = practice_session[other]

\* C34: with GET question and POST evaluate requests on one session
\* overlapping between their read of the stored list and their write, no
\* stored list is ever longer than the maximum of its mode: each writer
\* writes its own copy of the list, of at most the length it read plus one,
\* which is at most the maximum.
C34_LengthWithinMaxInterleaved == ListsWithinMax /\ WritersWithinMax

\* The list is full while a request that read a shorter list is in flight
C34_StaleWriterOnFullList ==
    \E n \in 1..Len(pending) :
        LET p == pending[n]
        IN  /\ p.state = "called"
            /\ Len(Questions(practice_session, p.id)) = MaxFor(p)
            /\ Len(p.questions) < MaxFor(p)

(***************************************************************************)
(* C35: acknowledged writes under overlapping requests                     *)
(***************************************************************************)
\* The response of the GET question request that stored record k of row id
\* has been delivered: no such request is left between commit and response
QuestionAcknowledged(id, k) ==
    \A n \in 1..Len(pending) :
        ~(pending[n].kind \in Kinds /\ pending[n].id = id /\ pending[n].index = k
             /\ pending[n].state = "stored")

\* This step is the commit of a POST evaluate(i) on row id
EvaluateStores(id, i) ==
    \E n \in 1..Len(pending) :
        /\ pending[n].kind = "evaluate"
        /\ pending[n].id = id
        /\ pending[n].index = i
        /\ pending' = Without(n)
        /\ practice_session' # practice_session

\* A step keeps every acknowledged record and every acknowledged answer
KeepsAcknowledged ==
    \A id \in 1..Len(practice_session) :
        LET old == Questions(practice_session, id)
            new == Questions(practice_session', id)
        IN  \A k \in 0..(Len(old) - 1) :
                /\ QuestionAcknowledged(id, k) => k < Len(new)
                /\ (Has(old[k + 1], "user_answer") /\ ~EvaluateStores(id, k))
                       => /\ k < Len(new)
                          /\ Has(new[k + 1], "user_answer")
                          /\ new[k + 1]["user_answer"] = old[k + 1]["user_answer"]

\* C35: with requests on one practice session overlapping, no acknowledged
\* write is lost: once POST evaluate(i) has answered success, record i
\* carries that user answer in every later state until another evaluate(i)
\* replaces it, and once GET question(k) has answered with a generated
\* question the stored list keeps a record at index k.
C35_NoAcknowledgedWriteLost == [][KeepsAcknowledged]_vars

(***************************************************************************)
(* C36: a pointer names a row of its mode and of the user logged in        *)
(***************************************************************************)
\* C36: in every reachable state a coach pointer that is set names a stored
\* row of type coach and a practice pointer that is set names a stored row
\* of type practice, each owned by the user logged in; no pointer is set
\* while no user is logged in.
C36_PointersNameOwnRows ==
    \A kind \in Kinds :
        Has(session, PointerKey(kind))
        => /\ Has(session, "user_id")
           /\ session[PointerKey(kind)] \in 1..Len(practice_session)
           /\ practice_session[session[PointerKey(kind)]].session_type = kind
           /\ practice_session[session[PointerKey(kind)]].user_id = session["user_id"]

\* Another account is logged in after the owner of a stored row logged out:
\* no pointer is left to that row
C36_OtherUserAfterLogout ==
    /\ Has(session, "user_id")
    /\ \E id \in 1..Len(practice_session) :
           /\ practice_session[id].user_id # session["user_id"]
           /\ Questions(practice_session, id) # <<>>
    /\ \A kind \in Kinds : ~Has(session, PointerKey(kind))

(***************************************************************************)
(* C37: protected requests without a user, and logout                      *)
(***************************************************************************)
\* Every protected request of the practice table, for every input and
\* every outcome the gateway could give
ProtectedPractice ==
    {interview_coach_result(model, session, practice_session, m, j, out) :
         m \in {"GET", "POST"}, j \in JobPositions, out \in QuestionOutcomes}
    \cup {interview_question_display_result(session, practice_session)}
    \cup {QuestionRoute(kind, model, session, practice_session, i, out) :
              kind \in Kinds, i \in Indexes, out \in QuestionOutcomes}
    \cup {practice_interview_result(model, session, practice_session, m, j) :
              m \in {"GET", "POST"}, j \in JobPositions}
    \cup {practice_evaluate_result(model, session, practice_session,
                                   data.index, data.user_answer, out) :
              data \in EvaluateBodies, out \in FeedbackOutcomes}
    \cup {practice_results_result(model, session, practice_session, out) :
              out \in GatewayOutcomes(OverallReplies)}

\* Every protected request of the resume results table
ProtectedResume ==
    {resume_optimizer_result(model, session, resume_optimization_result, m, t, d, out, now) :
         m \in {"GET", "POST"}, t \in FormTexts, d \in FormTexts,
         out \in ResumeOutcomes, now \in Nows(resume_optimization_result)}
    \cup {resume_optimizer_results_result(session, resume_optimization_result, first) :
              first \in 0..Len(resume_optimization_result)}

SentToLogin(r, table) ==
    /\ r.status = 302
    /\ r.body = Redirect("login")
    /\ r.calls = 0
    /\ r.commits = 0
    /\ r.table = table
    /\ r.session = session

\* Without a user every protected request is sent to login, and logout
\* leaves a session without identity and pointers and the rows as they are
RefusedWithoutUser ==
    /\ ~Has(session, "user_id")
           => /\ \A r \in ProtectedPractice : SentToLogin(r, practice_session)
              /\ \A r \in ProtectedResume : SentToLogin(r, resume_optimization_result)
    /\ LET r == logout_result(session, practice_session)
       IN  /\ r.table = practice_session
           /\ r.calls = 0 /\ r.commits = 0
           /\ DOMAIN r.session
                  = DOMAIN session \ {"user_id", "current_coach_session_id",
                                      "current_practice_session_id"}

\* A step from a state without a user, or a step that ends without a user,
\* leaves every stored row as it is
RowsKeptWithoutUser ==
    (~Has(session, "user_id") \/ ~Has(session', "user_id"))
    => /\ practice_session' = practice_session
       /\ resume_optimization_result' = resume_optimization_result
       /\ user' = user
       /\ \A kind \in Kinds : ~Has(session', PointerKey(kind))

\* C37: without a logged-in user every protected request (the setups, GET
\* question, POST evaluate, GET results, the resume optimizer and its
\* results) is redirected to login, makes no gateway call and changes no
\* stored state; logout clears the identity of the user and both pointers
\* and leaves every stored row unchanged.
C37_LoginRequired == []RefusedWithoutUser /\ [][RowsKeptWithoutUser]_vars

\* Logged out with a practice row and a resume result stored
C37_LoggedOutWithRows ==
    /\ ~Has(session, "user_id")
    /\ practice_session # <<>>
    /\ resume_optimization_result # <<>>

(***************************************************************************)
(* C38: a request changes its own row only                                 *)
(***************************************************************************)
\* The request with result r changed no row but the one its pointer names
OnlyOwnRowChanged(r, kind) ==
    /\ Len(r.table) = Len(practice_session)
    /\ r.table # practice_session => Has(session, PointerKey(kind))
    /\ \A other \in 1..Len(practice_session) :
           r.table[other] # practice_session[other] => other = session[PointerKey(kind)]

\* The request with result r left the pointer of this kind as it was
SamePointer(r, kind) ==
    /\ Has(r.session, PointerKey(kind)) = Has(session, PointerKey(kind))
    /\ Has(session, PointerKey(kind))
           => r.session[PointerKey(kind)] = session[PointerKey(kind)]

\* The setup with result r left every earlier row as it was
EarlierRowsKept(r) ==
    /\ Len(r.table) >= Len(practice_session)
    /\ SubSeq(r.table, 1, Len(practice_session)) = practice_session

\* C38: each request changes at most the row its own active pointer names:
\* GET question and POST evaluate modify no row of another session,
\* starting a session leaves every earlier row unchanged, and but for
\* logout a request that sets or clears the pointer of one mode leaves the
\* pointer of the other mode as it was.
C38_OwnRowOnly ==
    /\ \A kind \in Kinds, i \in Indexes, out \in QuestionOutcomes :
           LET r == QuestionRoute(kind, model, session, practice_session, i, out)
           IN  /\ OnlyOwnRowChanged(r, kind)
               /\ \A k \in Kinds : SamePointer(r, k)
    /\ \A data \in EvaluateBodies, out \in FeedbackOutcomes :
           LET r == practice_evaluate_result(model, session, practice_session,
                                             data.index, data.user_answer, out)
           IN  /\ OnlyOwnRowChanged(r, "practice")
               /\ \A k \in Kinds : SamePointer(r, k)
    /\ \A j \in JobPositions, out \in QuestionOutcomes :
           LET r == interview_coach_result(model, session, practice_session, "POST", j, out)
           IN  EarlierRowsKept(r) /\ SamePointer(r, "practice")
    /\ \A j \in JobPositions :
           LET r == practice_interview_result(model, session, practice_session, "POST", j)
           IN  EarlierRowsKept(r) /\ SamePointer(r, "coach")
    /\ \A out \in GatewayOutcomes(OverallReplies) :
           LET r == practice_results_result(model, session, practice_session, out)
           IN  r.table = practice_session /\ SamePointer(r, "coach")

\* A coach session and a practice session are active side by side, each
\* with questions of its own, those of the practice session evaluated
C38_TwoActiveSessions ==
    /\ HasActive(session, practice_session, "coach")
    /\ HasActive(session, practice_session, "practice")
    /\ Len(ActiveQuestions(session, practice_session, "coach")) >= 2
    /\ Answered(ActiveQuestions(session, practice_session, "practice")) >= 2

(***************************************************************************)
(* C39: the practice question endpoint keeps the ideal answer back         *)
(***************************************************************************)
\* The ideal answers a response to GET question could give away: those of
\* the stored records and those of the pairs in the reply of the gateway
IdealAnswers(questions, out) ==
    {questions[n]["answer"] : n \in 1..Len(questions)}
        \cup {parse_ai_response(Strip(out.text))[n]["answer"] :
                  n \in 1..Len(parse_ai_response(Strip(out.text)))}

\* No field of the body is named answer, and neither the question nor the
\* error message it carries is one of the answers
KeepsBack(body, answers) ==
    /\ ~Has(body, "answer")
    /\ \A key \in DOMAIN body \cap {"question", "error"} : body[key] \notin answers

\* C39: no response of the practice question endpoint carries the ideal
\* answer of a record: for a stored record and for a newly generated one it
\* returns question, index and total only, whereas the coach endpoint
\* returns the ideal answer of the record with them.
C39_PracticeAnswerKeptBack ==
    \A i \in Indexes, out \in QuestionOutcomes :
        /\ LET r == practice_interview_question_result(model, session, practice_session,
                                                       i, out)
               l == IF HasActive(session, practice_session, "practice")
                    THEN ActiveQuestions(session, practice_session, "practice") ELSE <<>>
           IN  /\ KeepsBack(r.body, IdealAnswers(l, out))
               /\ r.status = 200
                      => /\ DOMAIN r.body = {"question", "index", "total"}
                         /\ r.body["question"]
                                = ActiveQuestions(r.session, r.table, "practice")[i + 1]["question"]
        /\ LET r == get_question_result(model, session, practice_session, i, out)
           IN  r.status = 200
               => /\ DOMAIN r.body = {"question", "answer", "index", "total"}
                  /\ r.body["answer"]
                         = ActiveQuestions(r.session, r.table, "coach")[i + 1]["answer"]

\* A practice session with stored questions where the next one can be
\* generated: both kinds of response are given without the answer
C39_StoredAndGenerated ==
    /\ HasActive(session, practice_session, "practice")
    /\ LET l == ActiveQuestions(session, practice_session, "practice")
       IN  /\ Len(l) >= 1
           /\ Len(l) < MAX_PRACTICE_QUESTIONS
           /\ practice_interview_question_result(model, session, practice_session, 0,
                                                  NoCall).body
                  = [question |-> l[1]["question"], index |-> 0,
                     total |-> MAX_PRACTICE_QUESTIONS]
           /\ practice_interview_question_result(
                  model, session, practice_session, Len(l),
                  [kind |-> "ok",
                   text |-> <<"Question:", " ", "q1", " ", "Answer:", " ", "a1", " ">>]).body
                  = [question |-> <<"q1">>, index |-> Len(l),
                     total |-> MAX_PRACTICE_QUESTIONS]

(***************************************************************************)
(* One client that walks through the practice interview.  It logs in,      *)
(* starts a session, and then repeats: GET question(len) while every       *)
(* stored record is evaluated, POST evaluate on the record it has just     *)
(* been given, GET results once MAX_PRACTICE_QUESTIONS records are         *)
(* evaluated.  It sends one request at a time and sends it again when the  *)
(* response was a failure.  Every gateway call carries a timeout           *)
(* (request_options), so the handler always gets an outcome: a reply or a  *)
(* raised error.                                                           *)
(***************************************************************************)
\* The answer the client gives
ClientAnswerText == <<" ", "ua", " ">>

\* The client has a practice session and no request in flight
ClientReady ==
    /\ pending = <<>>
    /\ Has(session, "user_id")
    /\ HasActive(session, practice_session, "practice")

\* GET /practice-interview/question/<len>, up to the gateway call
ClientAsks ==
    /\ ClientReady
    /\ LET l == ActiveQuestions(session, practice_session, "practice")
       IN  /\ Answered(l) = Len(l)
           /\ LoadQuestion("practice", Len(l))

\* POST /practice-evaluate for the last record, up to the gateway call
ClientEvaluates ==
    /\ ClientReady
    /\ LET l == ActiveQuestions(session, practice_session, "practice")
       IN  /\ l # <<>>
           /\ ~Has(l[Len(l)], "user_answer")
           /\ LoadEvaluate([index |-> [type |-> "int", val |-> Len(l) - 1],
                            user_answer |-> ClientAnswerText])

\* GET /practice-results after the redirect
ClientFetchesResults ==
    /\ ClientReady
    /\ AllAnswered(ActiveQuestions(session, practice_session, "practice"))
    /\ practice_results

\* The replies of the gateway to the client's question requests: those of
\* QuestionReplies and a pair with no padding
ClientQuestionOutcomes ==
    QuestionOutcomes \cup OkOutcomes({<<"Question:", "q1", "Answer:", "a1">>})

\* Those of them a pair is parsed from, listed
ClientParsedOutcomes ==
    OkOutcomes({ <<"Question:", "q1", "Answer:", "a1">>,
                 <<"Question:", " ", "q1", " ", "Answer:", " ", "a1", " ">>,
                 <<"Question:", "q2", "Answer:", "a2", " ", "Question:", "q1", "Answer:", "a1">>,
                 <<"Question:", " ", "Answer:", "a1", "Question:", "q2", "Answer:", "a2">> })

\* The gateway gave out to a waiting question request: any outcome
GatewayAnswersQuestion ==
    \E n \in 1..Len(pending), out \in ClientQuestionOutcomes : StoreQuestion(n, out)

\* The gateway gave out to a waiting evaluation: any outcome
GatewayAnswersEvaluate == \E n \in 1..Len(pending), out \in FeedbackOutcomes : StoreEvaluate(n, out)

\* The gateway succeeded with a reply a pair is parsed from, and it is stored
GatewayGenerates ==
    \E n \in 1..Len(pending), out \in ClientParsedOutcomes : StoreQuestion(n, out)

\* The gateway succeeded with a feedback, and it is stored
GatewayEvaluates ==
    \E n \in 1..Len(pending), out \in OkOutcomes(FeedbackReplies) : StoreEvaluate(n, out)

\* The response of a question request reaches the client
ClientReceives == \E n \in 1..Len(pending) : Respond(n)

NextClient ==
    \/ \E u \in Users : login(u)
    \/ \E j \in JobPositions : practice_interview("POST", j)
    \/ ClientAsks
    \/ GatewayAnswersQuestion
    \/ ClientReceives
    \/ ClientEvaluates
    \/ GatewayAnswersEvaluate
    \/ ClientFetchesResults

\* The client keeps sending its next request, a call that was made gets an
\* outcome within its timeout, a response is delivered, and a gateway that is
\* called again and again succeeds in the end
FairClient ==
    /\ WF_vars(\E u \in Users : login(u))
    /\ WF_vars(\E j \in JobPositions : practice_interview("POST", j))
    /\ WF_vars(ClientAsks)
    /\ WF_vars(ClientEvaluates)
    /\ WF_vars(ClientFetchesResults)
    /\ WF_vars(GatewayAnswersQuestion)
    /\ WF_vars(GatewayAnswersEvaluate)
    /\ WF_vars(ClientReceives)
    /\ SF_vars(GatewayGenerates)
    /\ SF_vars(GatewayEvaluates)

SpecClient == Init /\ [][NextClient]_vars /\ FairClient

\* The only row holds MAX_PRACTICE_QUESTIONS records, each evaluated
RecordsEvaluated ==
    /\ Len(practice_session) = 1
    /\ Len(Questions(practice_session, 1)) = MAX_PRACTICE_QUESTIONS
    /\ EvaluatedUpTo(Questions(practice_session, 1), MAX_PRACTICE_QUESTIONS)

\* The results were rendered: the handler drops the practice pointer when it
\* renders them, and nothing else of the client does
ResultsRendered ==
    /\ Has(session, "user_id")
    /\ ~Has(session, "current_practice_session_id")
    /\ RecordsEvaluated

\* The evaluation that completes the records answers with the redirect
LastEvaluationRedirects ==
    /\ pending # <<>>
    /\ pending[1].kind = "evaluate"
    /\ ~RecordsEvaluated
    /\ RecordsEvaluated'
    => \E out \in OkOutcomes(FeedbackReplies) :
           LET r == ResumeEvaluate(pending[1], practice_session, out)
           IN  /\ r.table = practice_session'
               /\ r.status = 200
               /\ RedirectsToResults(r)

\* The results page the client is given once the records are evaluated
RendersWhenEvaluated ==
    ClientReady /\ RecordsEvaluated
    => \A out \in GatewayOutcomes(OverallReplies) :
           LET r == practice_results_result(model, session, practice_session, out)
           IN  /\ r.status = 200
               /\ r.body["page"] = "practice_results.html"
               /\ ~Has(r.session, "current_practice_session_id")

\* The replies listed as parsed are those parse_ai_response finds a pair in
ParsedOutcomesListed ==
    ClientParsedOutcomes =
        {out \in ClientQuestionOutcomes :
             out.kind = "ok" /\ parse_ai_response(Strip(out.text)) # <<>>}

\* C40: every request ends with a response, and with a gateway that succeeds
\* in the end whenever it is called again, the client that repeats GET
\* question(len) and POST evaluate on each new record reaches
\* MAX_PRACTICE_QUESTIONS evaluated records, is given the redirect by the
\* evaluation that completes them, and is given the rendered results: from
\* some point on no request is in flight and, where the gateway is
\* configured, the results of the full evaluated list were rendered.
C40_ClientObtainsResults ==
    /\ <>[](pending = <<>> /\ (model => ResultsRendered))
    /\ [][LastEvaluationRedirects]_vars
    /\ []RendersWhenEvaluated
    /\ []ParsedOutcomesListed

\* The client was given the results of a finished interview
C40_ResultsObtained == model /\ pending = <<>> /\ ResultsRendered
====
